---- MODULE Spec2Model ----
(***************************************************************************)
(* A model of rdbtools/parser.py: RdbParser.parse and the decoders it      *)
(* calls, run over dump files given as sequences of bytes.                 *)
(*                                                                         *)
(* The source is Python 2 (xrange, str byte strings, integer "/").  A      *)
(* stream position is the number of bytes consumed so far (f.tell()).      *)
(* f.read(n) returns the bytes that are left when fewer than n remain;     *)
(* struct.unpack raises on such a short read.  A raised exception is the   *)
(* result [ok |-> FALSE]; every caller propagates it, as no handler        *)
(* in the source catches it (the one try/except, in read_zipmap, wraps     *)
(* int(value) only).                                                       *)
(*                                                                         *)
(* Python integers are unbounded; the dumps of this model keep every       *)
(* multi-byte integer below 2^31, where the arithmetic here is exact.      *)
(* struct's native byte order is little-endian (the common hosts).         *)
(***************************************************************************)
EXTENDS Integers, Sequences, FiniteSets, TLC

\* ------------------------------------------------------------------------
\* Program constants
\* ------------------------------------------------------------------------
REDIS_RDB_6BITLEN == 0
REDIS_RDB_14BITLEN == 1
REDIS_RDB_32BITLEN == 2
REDIS_RDB_ENCVAL == 3

REDIS_RDB_OPCODE_EXPIRETIME_MS == 252
REDIS_RDB_OPCODE_EXPIRETIME == 253
REDIS_RDB_OPCODE_SELECTDB == 254
REDIS_RDB_OPCODE_EOF == 255

REDIS_RDB_TYPE_STRING == 0
REDIS_RDB_TYPE_LIST == 1
REDIS_RDB_TYPE_SET == 2
REDIS_RDB_TYPE_ZSET == 3
REDIS_RDB_TYPE_HASH == 4
REDIS_RDB_TYPE_HASH_ZIPMAP == 9
REDIS_RDB_TYPE_LIST_ZIPLIST == 10
REDIS_RDB_TYPE_SET_INTSET == 11
REDIS_RDB_TYPE_ZSET_ZIPLIST == 12
REDIS_RDB_TYPE_HASH_ZIPLIST == 13

REDIS_RDB_ENC_INT8 == 0
REDIS_RDB_ENC_INT16 == 1
REDIS_RDB_ENC_INT32 == 2
REDIS_RDB_ENC_LZF == 3

DATA_TYPE_MAPPING ==
    [t \in {0, 1, 2, 3, 4, 9, 10, 11, 12, 13} |->
        CASE t = 0 -> "string"
          [] t \in {1, 10} -> "list"
          [] t \in {2, 11} -> "set"
          [] t \in {3, 12} -> "sortedset"
          [] OTHER -> "hash"]

\* ------------------------------------------------------------------------
\* Python values handed to the callback: None, str, int, float.
\* One record shape for all of them, so that any two values compare.
\* ------------------------------------------------------------------------
PyNone == [t |-> "none", n |-> 0, s |-> <<>>]
PyStr(bytes) == [t |-> "str", n |-> 0, s |-> bytes]
PyInt(i) == [t |-> "int", n |-> i, s |-> <<>>]
PyFloat(i) == [t |-> "float", n |-> i, s |-> <<>>]

\* Python truth value of a key: None, '' and 0 are false.
Truthy(v) ==
    CASE v.t = "none" -> FALSE
      [] v.t = "str" -> v.s # <<>>
      [] OTHER -> v.n # 0

Min(a, b) == IF a < b THEN a ELSE b

\* ASCII: '0'..'9', the whitespace of str.strip(), '+' is 43 and '-' is 45
Digits == 48 .. 57
Whitespace == {9, 10, 11, 12, 13, 32}

RECURSIVE DecimalDigits(_)
DecimalDigits(i) ==
    IF i < 10 THEN <<48 + i>> ELSE Append(DecimalDigits(i \div 10), 48 + (i % 10))

\* str(key): a str is itself, an int its decimal digits, None is 'None'.
str(v) ==
    CASE v.t = "str" -> v.s
      [] v.t = "int" ->
            IF v.n < 0 THEN <<45>> \o DecimalDigits(-v.n) ELSE DecimalDigits(v.n)
      [] OTHER -> <<78, 111, 110, 101>>

\* s from its first byte that is not whitespace
LStrip(s) ==
    LET first == CHOOSE i \in 1 .. Len(s) + 1 :
                    /\ \A j \in 1 .. i - 1 : s[j] \in Whitespace
                    /\ i = Len(s) + 1 \/ s[i] \notin Whitespace
    IN  SubSeq(s, first, Len(s))

\* s up to its last byte that is not whitespace
RStrip(s) ==
    LET last == CHOOSE i \in 0 .. Len(s) :
                    /\ \A j \in i + 1 .. Len(s) : s[j] \in Whitespace
                    /\ i = 0 \/ s[i] \notin Whitespace
    IN  SubSeq(s, 1, last)

RECURSIVE DigitsValue(_)
DigitsValue(s) ==
    IF s = <<>> THEN 0 ELSE 10 * DigitsValue(SubSeq(s, 1, Len(s) - 1)) + (s[Len(s)] - 48)

\* int(s) of a byte string in base 10: surrounding whitespace is dropped, one
\* sign is allowed, at least one digit must follow and nothing else;
\* anything else is a ValueError.
int(s) ==
    LET t == RStrip(LStrip(s))
        signed == t # <<>> /\ t[1] \in {43, 45}
        d == IF signed THEN Tail(t) ELSE t
    IN  IF d # <<>> /\ \A i \in 1 .. Len(d) : d[i] \in Digits
        THEN [ok |-> TRUE,
              v |-> IF signed /\ t[1] = 45 THEN -DigitsValue(d) ELSE DigitsValue(d)]
        ELSE [ok |-> FALSE, v |-> 0]

\* float(s): the same grammar as int(s) over the bytes the dumps of this
\* model hold, which leave out '.', 'e', 'E' and the letters of inf and nan;
\* the value is then a whole number.
float(s) == int(s)

\* ------------------------------------------------------------------------
\* The byte source: struct reads fail on a short read, f.read does not.
\* ------------------------------------------------------------------------
Fail == [ok |-> FALSE, v |-> 0, pos |-> 0]

\* f.read(n) from offset pos
read(f, pos, n) == SubSeq(f, pos + 1, Min(pos + n, Len(f)))
tell(f, pos, n) == Min(pos + n, Len(f))

\* unsigned little-endian value of a byte string
RECURSIVE LE(_)
LE(b) == IF b = <<>> THEN 0 ELSE b[1] + 256 * LE(Tail(b))

\* signed little-endian (two's complement) value of a byte string
RECURSIVE SLE(_)
SLE(b) ==
    IF Len(b) = 1 THEN (IF b[1] >= 128 THEN b[1] - 256 ELSE b[1])
    ELSE b[1] + 256 * SLE(Tail(b))

RECURSIVE Reverse(_)
Reverse(b) == IF b = <<>> THEN <<>> ELSE Append(Reverse(Tail(b)), b[1])

unpack_unsigned(f, pos, n) ==
    IF pos + n <= Len(f)
    THEN [ok |-> TRUE, v |-> LE(read(f, pos, n)), pos |-> pos + n]
    ELSE Fail

unpack_signed(f, pos, n) ==
    IF pos + n <= Len(f)
    THEN [ok |-> TRUE, v |-> SLE(read(f, pos, n)), pos |-> pos + n]
    ELSE Fail

read_signed_char(f, pos) == unpack_signed(f, pos, 1)
read_unsigned_char(f, pos) == unpack_unsigned(f, pos, 1)
read_signed_short(f, pos) == unpack_signed(f, pos, 2)
read_unsigned_short(f, pos) == unpack_unsigned(f, pos, 2)
read_signed_int(f, pos) == unpack_signed(f, pos, 4)
read_unsigned_int(f, pos) == unpack_unsigned(f, pos, 4)
read_signed_long(f, pos) == unpack_signed(f, pos, 8)
read_unsigned_long(f, pos) == unpack_unsigned(f, pos, 8)

read_big_endian_unsigned_int(f, pos) ==
    IF pos + 4 <= Len(f)
    THEN [ok |-> TRUE, v |-> LE(Reverse(read(f, pos, 4))), pos |-> pos + 4]
    ELSE Fail

\* '0' + f.read(3) unpacked as a native int, then >> 8: the three bytes as a
\* signed 24-bit number.
read_24bit_signed_number(f, pos) == unpack_signed(f, pos, 3)

\* ntohl that leaves the bytes in their native order
ntohl_unswapped(f, pos) == read_unsigned_int(f, pos)

\* ntohl: the native unsigned int with its four bytes swapped
ntohl(f, pos) ==
    LET r == read_unsigned_int(f, pos)
    IN  IF r.ok THEN [r EXCEPT !.v = LE(Reverse(read(f, pos, 4)))] ELSE Fail

\* skip(f, free): f.read(free) when free is not 0
skip(f, pos, free) == IF free # 0 THEN tell(f, pos, free) ELSE pos

\* ------------------------------------------------------------------------
\* Length prefix and string codec.
\* A function of the source that binds the result of a read to a local
\* is two definitions here: the read, and the rest of the body with the
\* local as a parameter.
\* ------------------------------------------------------------------------
FailLength == [ok |-> FALSE, length |-> 0, is_encoded |-> FALSE, pos |-> 0]

Length(length, is_encoded, pos) ==
    [ok |-> TRUE, length |-> length, is_encoded |-> is_encoded, pos |-> pos]

\* read_length_with_encoding after bytes[0], the result b of the first read;
\* (b & 0xC0) >> 6 is (b \div 64) % 4 and b & 0x3F is b % 64
length_with_encoding_of(f, b) ==
    IF ~b.ok THEN FailLength
    ELSE IF (b.v \div 64) % 4 = REDIS_RDB_ENCVAL THEN Length(b.v % 64, TRUE, b.pos)
    ELSE IF (b.v \div 64) % 4 = REDIS_RDB_6BITLEN THEN Length(b.v % 64, FALSE, b.pos)
    ELSE IF (b.v \div 64) % 4 = REDIS_RDB_14BITLEN
    THEN LET b1 == read_unsigned_char(f, b.pos)
         IN  IF ~b1.ok THEN FailLength ELSE Length((b.v % 64) * 256 + b1.v, FALSE, b1.pos)
    ELSE LET n == ntohl(f, b.pos)
         IN  IF ~n.ok THEN FailLength ELSE Length(n.v, FALSE, n.pos)

read_length_with_encoding(f, pos) == length_with_encoding_of(f, read_unsigned_char(f, pos))

\* read_length_with_encoding(f)[0]
read_length(f, pos) ==
    LET t == read_length_with_encoding(f, pos)
    IN  [ok |-> t.ok, v |-> t.length, pos |-> t.pos]

\* out_stream.append(out_stream[ref]), length + 2 times.  A negative ref
\* indexes the bytearray from its end, as Python does; an index outside
\* the bytearray is an IndexError.
\* the copy of a back reference made at once from the output as it was
\* before the copy: bytes the copy itself writes are not there to be read
lzf_copy_block(out_stream, ref, count) ==
    IF count > 0 /\ (ref < -Len(out_stream) \/ ref + count > Len(out_stream))
    THEN [ok |-> FALSE, out |-> out_stream]
    ELSE [ok |-> TRUE,
          out |-> out_stream \o [k \in 1 .. count |->
                                    out_stream[((ref + k - 1) % Len(out_stream)) + 1]]]

\* The turns of the loop are taken in two halves, the second on the output
\* of the first, so that a long copy does not nest as deep as it is long.
RECURSIVE lzf_copy(_, _, _)

\* the turns of the loop that are left after the turns that made copied
lzf_copy_rest(copied, ref, count) ==
    IF ~copied.ok THEN copied ELSE lzf_copy(copied.out, ref, count)

lzf_copy(out_stream, ref, count) ==
    IF count = 0 THEN [ok |-> TRUE, out |-> out_stream]
    ELSE IF count = 1
    THEN IF ref < -Len(out_stream) \/ ref >= Len(out_stream)
         THEN [ok |-> FALSE, out |-> out_stream]
         ELSE [ok |-> TRUE,
               out |-> Append(out_stream,
                              out_stream[(IF ref < 0 THEN Len(out_stream) + ref ELSE ref) + 1])]
    ELSE lzf_copy_rest(lzf_copy(out_stream, ref, count \div 2),
                       ref + count \div 2, count - count \div 2)

RECURSIVE lzf_loop(_, _, _)

\* the back reference of lzf_decompress: ctrl >= 32, in_index is past ctrl
\* and past the extra length byte when there is one
lzf_back_reference(in_stream, in_index, out_stream, ctrl, length) ==
    IF in_index + 1 > Len(in_stream) THEN [ok |-> FALSE, out |-> out_stream]
    ELSE lzf_loop(in_stream, in_index + 1,
                  lzf_copy(out_stream,
                           Len(out_stream) - ((ctrl % 32) * 256) - in_stream[in_index + 1] - 1,
                           length + 2))

\* one turn of the while loop of lzf_decompress, ctrl read and in_index past it
lzf_ctrl(in_stream, in_index, out_stream, ctrl) ==
    IF ctrl < 32
    THEN IF in_index + ctrl + 1 > Len(in_stream)
         THEN [ok |-> FALSE, out |-> out_stream]
         ELSE lzf_loop(in_stream, in_index + ctrl + 1,
                       [ok |-> TRUE,
                        out |-> out_stream \o SubSeq(in_stream, in_index + 1, in_index + ctrl + 1)])
    ELSE IF ctrl \div 32 = 7
    THEN IF in_index + 1 > Len(in_stream)
         THEN [ok |-> FALSE, out |-> out_stream]
         ELSE lzf_back_reference(in_stream, in_index + 1, out_stream, ctrl,
                                 7 + in_stream[in_index + 1])
    ELSE lzf_back_reference(in_stream, in_index, out_stream, ctrl, ctrl \div 32)

\* the while loop of lzf_decompress on the output so far, o: what the turn
\* before made of out_stream; out_index is Len(out_stream) throughout
lzf_loop(in_stream, in_index, o) ==
    IF ~o.ok THEN o
    ELSE IF ~(in_index < Len(in_stream)) THEN o
    ELSE lzf_ctrl(in_stream, in_index + 1, o.out, in_stream[in_index + 1])

\* lzf_decompress without the test of len(out_stream)
lzf_decompress_any_length(compressed, expected_length) ==
    LET r == lzf_loop(compressed, 0, [ok |-> TRUE, out |-> <<>>])
    IN  IF r.ok THEN [ok |-> TRUE, v |-> PyStr(r.out)] ELSE [ok |-> FALSE, v |-> PyNone]

\* len(out_stream) != expected_length raises
lzf_decompress(compressed, expected_length) ==
    LET r == lzf_loop(compressed, 0, [ok |-> TRUE, out |-> <<>>])
    IN  IF r.ok /\ Len(r.out) = expected_length
        THEN [ok |-> TRUE, v |-> PyStr(r.out)]
        ELSE [ok |-> FALSE, v |-> PyNone]

FailString == [ok |-> FALSE, v |-> PyNone, pos |-> 0]

\* the int branches of read_string, and the int entries of a ziplist
read_encoded_int(r) == [ok |-> r.ok, v |-> PyInt(r.v), pos |-> r.pos]

\* val = self.lzf_decompress(f.read(clen), l)
read_lzf_value(f, pos, clen, val) == [ok |-> val.ok, v |-> val.v, pos |-> tell(f, pos, clen)]

\* clen read, then l
read_lzf_clen(f, clen) ==
    LET l == read_length(f, clen.pos)
    IN  IF ~clen.ok \/ ~l.ok THEN FailString
        ELSE read_lzf_value(f, l.pos, clen.v, lzf_decompress(read(f, l.pos, clen.v), l.v))

\* read_string after tup = self.read_length_with_encoding(f)
read_string_of(f, tup) ==
    IF ~tup.ok THEN FailString
    ELSE IF tup.is_encoded
    THEN CASE tup.length = REDIS_RDB_ENC_INT8 -> read_encoded_int(read_signed_char(f, tup.pos))
           [] tup.length = REDIS_RDB_ENC_INT16 -> read_encoded_int(read_signed_short(f, tup.pos))
           [] tup.length = REDIS_RDB_ENC_INT32 -> read_encoded_int(read_signed_int(f, tup.pos))
           [] tup.length = REDIS_RDB_ENC_LZF -> read_lzf_clen(f, read_length(f, tup.pos))
           [] OTHER -> [ok |-> TRUE, v |-> PyNone, pos |-> tup.pos]
    ELSE [ok |-> TRUE, v |-> PyStr(read(f, tup.pos, tup.length)),
          pos |-> tell(f, tup.pos, tup.length)]

read_string(f, pos) == read_string_of(f, read_length_with_encoding(f, pos))

\* a skip that did not raise leaves the stream at pos
Skipped(pos) == [ok |-> TRUE, v |-> 0, pos |-> pos]

\* clen read, then l; bytes_to_skip = clen
skip_lzf_clen(f, clen) ==
    LET l == read_length(f, clen.pos)
    IN  IF ~clen.ok \/ ~l.ok THEN Fail ELSE Skipped(skip(f, l.pos, clen.v))

\* skip_string after tup = self.read_length_with_encoding(f)
skip_string_of(f, tup) ==
    IF ~tup.ok THEN Fail
    ELSE IF tup.is_encoded
    THEN CASE tup.length = REDIS_RDB_ENC_INT8 -> Skipped(skip(f, tup.pos, 1))
           [] tup.length = REDIS_RDB_ENC_INT16 -> Skipped(skip(f, tup.pos, 2))
           [] tup.length = REDIS_RDB_ENC_INT32 -> Skipped(skip(f, tup.pos, 4))
           [] tup.length = REDIS_RDB_ENC_LZF -> skip_lzf_clen(f, read_length(f, tup.pos))
           [] OTHER -> Skipped(skip(f, tup.pos, 0))
    ELSE Skipped(skip(f, tup.pos, tup.length))

skip_string(f, pos) == skip_string_of(f, read_length_with_encoding(f, pos))

\* ------------------------------------------------------------------------
\* Callbacks: one record per call of a method of RdbCallback, in call order.
\* An expiry is <<>> for None and <<instant>> for a datetime.
\* ------------------------------------------------------------------------
Callback ==
    [name |-> "", db |-> -1, key |-> PyNone, x |-> PyNone, y |-> PyNone,
     length |-> -1, expiry |-> <<>>, encoding |-> "", sizeof_value |-> -1]

start_rdb == [Callback EXCEPT !.name = "start_rdb"]
end_rdb == [Callback EXCEPT !.name = "end_rdb"]
start_database(db_number) == [Callback EXCEPT !.name = "start_database", !.db = db_number]
end_database(db_number) == [Callback EXCEPT !.name = "end_database", !.db = db_number]
set(key, value, expiry) ==
    [Callback EXCEPT !.name = "set", !.key = key, !.x = value, !.expiry = expiry,
                     !.encoding = "string"]
start_hash(key, length, expiry, encoding, sizeof_value) ==
    [Callback EXCEPT !.name = "start_hash", !.key = key, !.length = length,
                     !.expiry = expiry, !.encoding = encoding, !.sizeof_value = sizeof_value]
hset(key, field, value) == [Callback EXCEPT !.name = "hset", !.key = key, !.x = field, !.y = value]
end_hash(key) == [Callback EXCEPT !.name = "end_hash", !.key = key]
start_set(key, cardinality, expiry, encoding, sizeof_value) ==
    [Callback EXCEPT !.name = "start_set", !.key = key, !.length = cardinality,
                     !.expiry = expiry, !.encoding = encoding, !.sizeof_value = sizeof_value]
sadd(key, member) == [Callback EXCEPT !.name = "sadd", !.key = key, !.x = member]
end_set(key) == [Callback EXCEPT !.name = "end_set", !.key = key]
start_list(key, length, expiry, encoding, sizeof_value) ==
    [Callback EXCEPT !.name = "start_list", !.key = key, !.length = length,
                     !.expiry = expiry, !.encoding = encoding, !.sizeof_value = sizeof_value]
rpush(key, value) == [Callback EXCEPT !.name = "rpush", !.key = key, !.x = value]
end_list(key) == [Callback EXCEPT !.name = "end_list", !.key = key]
start_sorted_set(key, length, expiry, encoding, sizeof_value) ==
    [Callback EXCEPT !.name = "start_sorted_set", !.key = key, !.length = length,
                     !.expiry = expiry, !.encoding = encoding, !.sizeof_value = sizeof_value]
zadd(key, score, member) == [Callback EXCEPT !.name = "zadd", !.key = key, !.x = score, !.y = member]
end_sorted_set(key) == [Callback EXCEPT !.name = "end_sorted_set", !.key = key]

\* What a decoder did: the callbacks it made, in order, whether it returned
\* (ok) or raised, and where it left the stream.
Returned(pos, cbs) == [ok |-> TRUE, pos |-> pos, cbs |-> cbs]
Raised(cbs) == [ok |-> FALSE, pos |-> 0, cbs |-> cbs]

\* first the callbacks cbs, then what the rest of the decoder did
Then(cbs, rest) == [rest EXCEPT !.cbs = cbs \o rest.cbs]

\* ------------------------------------------------------------------------
\* read_object: the plain encodings
\* ------------------------------------------------------------------------
RECURSIVE read_list_items(_, _, _, _)

\* one turn of the LIST loop, val read
list_item(f, count, key, val) ==
    IF ~val.ok THEN Raised(<<>>)
    ELSE Then(<<rpush(key, val.v)>>, read_list_items(f, val.pos, count - 1, key))

\* the for loop of the LIST branch
read_list_items(f, pos, count, key) ==
    IF count <= 0 THEN Returned(pos, <<>>) ELSE list_item(f, count, key, read_string(f, pos))

RECURSIVE read_set_items(_, _, _, _)

\* one turn of the SET loop, val read
set_item(f, count, key, val) ==
    IF ~val.ok THEN Raised(<<>>)
    ELSE Then(<<sadd(key, val.v)>>, read_set_items(f, val.pos, count - 1, key))

\* the for loop of the SET branch
read_set_items(f, pos, count, key) ==
    IF count <= 0 THEN Returned(pos, <<>>) ELSE set_item(f, count, key, read_string(f, pos))

RECURSIVE read_zset_items(_, _, _, _)

\* one turn of the ZSET loop, val read; f.read returns a str, so
\* float(score) is always taken
zset_item(f, count, key, val) ==
    LET dbl_length == read_unsigned_char(f, val.pos)
        score == float(read(f, dbl_length.pos, dbl_length.v))
    IN  IF ~val.ok \/ ~dbl_length.ok \/ ~score.ok THEN Raised(<<>>)
        ELSE Then(<<zadd(key, PyFloat(score.v), val.v)>>,
                  read_zset_items(f, tell(f, dbl_length.pos, dbl_length.v), count - 1, key))

\* the for loop of the ZSET branch
read_zset_items(f, pos, count, key) ==
    IF count <= 0 THEN Returned(pos, <<>>) ELSE zset_item(f, count, key, read_string(f, pos))

RECURSIVE read_hash_items(_, _, _, _)

hash_value(f, count, key, field, value) ==
    IF ~value.ok THEN Raised(<<>>)
    ELSE Then(<<hset(key, field, value.v)>>, read_hash_items(f, value.pos, count - 1, key))

\* one turn of the HASH loop, field read
hash_item(f, count, key, field) ==
    IF ~field.ok THEN Raised(<<>>)
    ELSE hash_value(f, count, key, field.v, read_string(f, field.pos))

\* the for loop of the HASH branch
read_hash_items(f, pos, count, key) ==
    IF count <= 0 THEN Returned(pos, <<>>) ELSE hash_item(f, count, key, read_string(f, pos))

\* a decoder's closing callback, made when its loop returned
Close(items, cb) == IF items.ok THEN Returned(items.pos, items.cbs \o <<cb>>) ELSE items

\* a decoder that parsed a blob leaves the stream after the blob
After_blob(done, pos) == IF done.ok THEN Returned(pos, done.cbs) ELSE done

\* ------------------------------------------------------------------------
\* The packed encodings.  Each reads one string, the blob, and parses it
\* from a buffer of its own.  A blob that read_string returned as an int or
\* as None raises before start_X: StringIO(raw_string) or len(raw_string)
\* is a TypeError.
\* ------------------------------------------------------------------------
\* the blob of a packed encoding, or a failure
blob_of(raw_string) ==
    IF raw_string.ok /\ raw_string.v.t = "str"
    THEN [ok |-> TRUE, buff |-> raw_string.v.s, pos |-> raw_string.pos]
    ELSE [ok |-> FALSE, buff |-> <<>>, pos |-> 0]

read_blob(f, pos) == blob_of(read_string(f, pos))

read_intset_entry(buff, pos, encoding) ==
    CASE encoding = 8 -> read_unsigned_long(buff, pos)
      [] encoding = 4 -> read_unsigned_int(buff, pos)
      [] encoding = 2 -> read_unsigned_short(buff, pos)
      [] OTHER -> Fail

RECURSIVE read_intset_items(_, _, _, _, _)

\* one turn of the loop of read_intset, entry read
intset_item(buff, count, encoding, key, entry) ==
    IF ~entry.ok THEN Raised(<<>>)
    ELSE Then(<<sadd(key, PyInt(entry.v))>>,
              read_intset_items(buff, entry.pos, count - 1, encoding, key))

\* the for loop of read_intset
read_intset_items(buff, pos, count, encoding, key) ==
    IF count <= 0 THEN Returned(pos, <<>>)
    ELSE intset_item(buff, count, encoding, key, read_intset_entry(buff, pos, encoding))

\* read_intset after buff = StringIO(raw_string)
intset_header(buff, key, expiry) ==
    LET encoding == read_unsigned_int(buff, 0)
        num_entries == read_unsigned_int(buff, encoding.pos)
    IN  IF ~encoding.ok \/ ~num_entries.ok THEN Raised(<<>>)
        ELSE Then(<<start_set(key, num_entries.v, expiry, "intset", Len(buff))>>,
                  Close(read_intset_items(buff, num_entries.pos, num_entries.v,
                                          encoding.v, key),
                        end_set(key)))

\* read_intset after raw_string = self.read_string(f)
intset_of(key, expiry, raw) ==
    IF ~raw.ok THEN Raised(<<>>)
    ELSE After_blob(intset_header(raw.buff, key, expiry), raw.pos)

read_intset(f, pos, key, expiry) == intset_of(key, expiry, read_blob(f, pos))

\* value = f.read(length) of a ziplist entry, length read as r
ziplist_str(f, r, length) ==
    IF ~r.ok THEN FailString
    ELSE [ok |-> TRUE, v |-> PyStr(read(f, r.pos, length)), pos |-> tell(f, r.pos, length)]

\* read_ziplist_entry after entry_header is read
ziplist_entry_header(f, entry_header) ==
    IF ~entry_header.ok THEN FailString
    ELSE IF entry_header.v \div 64 = 0
    THEN ziplist_str(f, entry_header, entry_header.v % 64)
    ELSE IF entry_header.v \div 64 = 1
    THEN LET b == read_unsigned_char(f, entry_header.pos)
         IN  ziplist_str(f, b, (entry_header.v % 64) * 256 + b.v)
    ELSE IF entry_header.v \div 64 = 2
    THEN LET length == read_big_endian_unsigned_int(f, entry_header.pos)
         IN  ziplist_str(f, length, length.v)
    ELSE IF entry_header.v \div 16 = 12
    THEN read_encoded_int(read_signed_short(f, entry_header.pos))
    ELSE IF entry_header.v \div 16 = 13
    THEN read_encoded_int(read_signed_int(f, entry_header.pos))
    ELSE IF entry_header.v \div 16 = 14
    THEN read_encoded_int(read_signed_long(f, entry_header.pos))
    ELSE IF entry_header.v = 240
    THEN read_encoded_int(read_24bit_signed_number(f, entry_header.pos))
    ELSE IF entry_header.v = 254
    THEN read_encoded_int(read_signed_char(f, entry_header.pos))
    ELSE IF entry_header.v >= 241 /\ entry_header.v <= 253
    THEN [ok |-> TRUE, v |-> PyInt(entry_header.v - 241), pos |-> entry_header.pos]
    ELSE FailString

\* prev_length, read again as an unsigned int when its byte is 254, then
\* the entry header
read_ziplist_entry(f, pos) ==
    LET prev_length == read_unsigned_char(f, pos)
        prev_long == IF prev_length.ok /\ prev_length.v = 254
                     THEN read_unsigned_int(f, prev_length.pos)
                     ELSE prev_length
    IN  IF ~prev_long.ok THEN FailString
        ELSE ziplist_entry_header(f, read_unsigned_char(f, prev_long.pos))

\* zlbytes, tail_offset and num_entries at the head of a ziplist blob
read_ziplist_header(buff) ==
    LET zlbytes == read_unsigned_int(buff, 0)
        tail_offset == read_unsigned_int(buff, zlbytes.pos)
    IN  IF zlbytes.ok /\ tail_offset.ok
        THEN read_unsigned_short(buff, tail_offset.pos)
        ELSE Fail

\* read_zlist_end with the closing callback made before zlist_end is tested
read_zlist_end_closing(buff, items, cb) ==
    LET zlist_end == read_unsigned_char(buff, items.pos)
    IN  IF ~items.ok THEN items
        ELSE IF ~zlist_end.ok THEN Raised(items.cbs)
        ELSE IF zlist_end.v # 255 THEN Raised(items.cbs \o <<cb>>)
        ELSE Returned(zlist_end.pos, items.cbs \o <<cb>>)

\* read_zlist_end without the test of zlist_end: any byte ends the list
read_zlist_end_of_any_byte(buff, items, cb) ==
    LET zlist_end == read_unsigned_char(buff, items.pos)
    IN  IF ~items.ok THEN items
        ELSE IF ~zlist_end.ok THEN Raised(items.cbs)
        ELSE Returned(zlist_end.pos, items.cbs \o <<cb>>)

\* after the loop over a ziplist: zlist_end must be 255, then the closing
\* callback
read_zlist_end(buff, items, cb) ==
    LET zlist_end == read_unsigned_char(buff, items.pos)
    IN  IF ~items.ok THEN items
        ELSE IF ~zlist_end.ok \/ zlist_end.v # 255 THEN Raised(items.cbs)
        ELSE Returned(zlist_end.pos, items.cbs \o <<cb>>)

RECURSIVE read_ziplist_items(_, _, _, _)

\* one turn of the loop of read_ziplist, val read
ziplist_item(buff, count, key, val) ==
    IF ~val.ok THEN Raised(<<>>)
    ELSE Then(<<rpush(key, val.v)>>, read_ziplist_items(buff, val.pos, count - 1, key))

\* the for loop of read_ziplist
read_ziplist_items(buff, pos, count, key) ==
    IF count <= 0 THEN Returned(pos, <<>>)
    ELSE ziplist_item(buff, count, key, read_ziplist_entry(buff, pos))

ziplist_num_entries(buff, key, expiry, num_entries) ==
    IF ~num_entries.ok THEN Raised(<<>>)
    ELSE Then(<<start_list(key, num_entries.v, expiry, "ziplist", Len(buff))>>,
              read_zlist_end(buff,
                             read_ziplist_items(buff, num_entries.pos, num_entries.v, key),
                             end_list(key)))

\* read_ziplist after raw_string = self.read_string(f)
ziplist_of(key, expiry, raw) ==
    IF ~raw.ok THEN Raised(<<>>)
    ELSE After_blob(ziplist_num_entries(raw.buff, key, expiry, read_ziplist_header(raw.buff)),
                    raw.pos)

read_ziplist(f, pos, key, expiry) == ziplist_of(key, expiry, read_blob(f, pos))

\* isinstance(score, str): score = float(score)
ziplist_score(score) ==
    IF score.t = "str"
    THEN [ok |-> float(score.s).ok, v |-> PyFloat(float(score.s).v)]
    ELSE [ok |-> TRUE, v |-> score]

RECURSIVE read_zset_ziplist_items(_, _, _, _)

\* score read, made a float when it is a str
zset_ziplist_score(buff, count, key, member, score) ==
    LET parsed == ziplist_score(score.v)
    IN  IF ~score.ok \/ ~parsed.ok THEN Raised(<<>>)
        ELSE Then(<<zadd(key, parsed.v, member)>>,
                  read_zset_ziplist_items(buff, score.pos, count - 1, key))

\* one turn of the loop of read_zset_from_ziplist, member read
zset_ziplist_item(buff, count, key, member) ==
    IF ~member.ok THEN Raised(<<>>)
    ELSE zset_ziplist_score(buff, count, key, member.v, read_ziplist_entry(buff, member.pos))

\* the for loop of read_zset_from_ziplist
read_zset_ziplist_items(buff, pos, count, key) ==
    IF count <= 0 THEN Returned(pos, <<>>)
    ELSE zset_ziplist_item(buff, count, key, read_ziplist_entry(buff, pos))

zset_ziplist_num_entries(buff, key, expiry, num_entries) ==
    IF ~num_entries.ok THEN Raised(<<>>)
    ELSE IF num_entries.v % 2 # 0 THEN Raised(<<>>)
    ELSE Then(<<start_sorted_set(key, num_entries.v \div 2, expiry, "ziplist", Len(buff))>>,
              read_zlist_end(buff,
                             read_zset_ziplist_items(buff, num_entries.pos,
                                                     num_entries.v \div 2, key),
                             end_sorted_set(key)))

\* read_zset_from_ziplist after raw_string = self.read_string(f)
zset_ziplist_of(key, expiry, raw) ==
    IF ~raw.ok THEN Raised(<<>>)
    ELSE After_blob(zset_ziplist_num_entries(raw.buff, key, expiry,
                                             read_ziplist_header(raw.buff)),
                    raw.pos)

read_zset_from_ziplist(f, pos, key, expiry) == zset_ziplist_of(key, expiry, read_blob(f, pos))

RECURSIVE read_hash_ziplist_items(_, _, _, _)

hash_ziplist_value(buff, count, key, field, value) ==
    IF ~value.ok THEN Raised(<<>>)
    ELSE Then(<<hset(key, field, value.v)>>,
              read_hash_ziplist_items(buff, value.pos, count - 1, key))

\* one turn of the loop of read_hash_from_ziplist, field read
hash_ziplist_item(buff, count, key, field) ==
    IF ~field.ok THEN Raised(<<>>)
    ELSE hash_ziplist_value(buff, count, key, field.v, read_ziplist_entry(buff, field.pos))

\* the for loop of read_hash_from_ziplist
read_hash_ziplist_items(buff, pos, count, key) ==
    IF count <= 0 THEN Returned(pos, <<>>)
    ELSE hash_ziplist_item(buff, count, key, read_ziplist_entry(buff, pos))

hash_ziplist_num_entries(buff, key, expiry, num_entries) ==
    IF ~num_entries.ok THEN Raised(<<>>)
    ELSE IF num_entries.v % 2 # 0 THEN Raised(<<>>)
    ELSE Then(<<start_hash(key, num_entries.v \div 2, expiry, "ziplist", Len(buff))>>,
              read_zlist_end(buff,
                             read_hash_ziplist_items(buff, num_entries.pos,
                                                     num_entries.v \div 2, key),
                             end_hash(key)))

\* read_hash_from_ziplist after raw_string = self.read_string(f)
hash_ziplist_of(key, expiry, raw) ==
    IF ~raw.ok THEN Raised(<<>>)
    ELSE After_blob(hash_ziplist_num_entries(raw.buff, key, expiry,
                                             read_ziplist_header(raw.buff)),
                    raw.pos)

read_hash_from_ziplist(f, pos, key, expiry) == hash_ziplist_of(key, expiry, read_blob(f, pos))

\* a length of read_zipmap_next_length; is_none stands for None
ZipmapLength(ok, is_none, v, pos) == [ok |-> ok, is_none |-> is_none, v |-> v, pos |-> pos]

zipmap_next_length_of(f, num) ==
    IF ~num.ok THEN ZipmapLength(FALSE, FALSE, 0, 0)
    ELSE IF num.v < 254 THEN ZipmapLength(TRUE, FALSE, num.v, num.pos)
    ELSE IF num.v = 254
    THEN LET long == read_unsigned_int(f, num.pos)
         IN  ZipmapLength(long.ok, FALSE, long.v, long.pos)
    ELSE ZipmapLength(TRUE, TRUE, 0, num.pos)

read_zipmap_next_length(f, pos) == zipmap_next_length_of(f, read_unsigned_char(f, pos))

\* value = int(value), kept as the str on a ValueError
zipmap_value(bytes) == IF int(bytes).ok THEN PyInt(int(bytes).v) ELSE PyStr(bytes)

RECURSIVE read_zipmap_items(_, _, _)

\* read_zipmap that leaves the loop on None for the value as it does on
\* None for the key
zipmap_next_length_or_end(buff, key, field, next_length) ==
    LET free == read_unsigned_char(buff, next_length.pos)
    IN  IF next_length.ok /\ next_length.is_none THEN Returned(next_length.pos, <<>>)
        ELSE IF ~next_length.ok \/ ~free.ok THEN Raised(<<>>)
        ELSE Then(<<hset(key, PyStr(field),
                         zipmap_value(read(buff, free.pos, next_length.v)))>>,
                  read_zipmap_items(buff,
                                    skip(buff, tell(buff, free.pos, next_length.v), free.v),
                                    key))

\* next_length read for the value: None raises 'Unexepcted end of zip map';
\* then free, value = f.read(next_length), self.skip(f, free), the callback
zipmap_next_length(buff, key, field, next_length) ==
    LET free == read_unsigned_char(buff, next_length.pos)
    IN  IF ~next_length.ok \/ next_length.is_none \/ ~free.ok THEN Raised(<<>>)
        ELSE Then(<<hset(key, PyStr(field),
                         zipmap_value(read(buff, free.pos, next_length.v)))>>,
                  read_zipmap_items(buff,
                                    skip(buff, tell(buff, free.pos, next_length.v), free.v),
                                    key))

\* one turn of the while loop of read_zipmap, key_length read
zipmap_key_length(buff, key, key_length) ==
    IF ~key_length.ok THEN Raised(<<>>)
    ELSE IF key_length.is_none THEN Returned(key_length.pos, <<>>)
    ELSE zipmap_next_length(buff, key, read(buff, key_length.pos, key_length.v),
                            read_zipmap_next_length(buff,
                                                    tell(buff, key_length.pos, key_length.v)))

\* the while loop of read_zipmap
read_zipmap_items(buff, pos, key) ==
    zipmap_key_length(buff, key, read_zipmap_next_length(buff, pos))

zipmap_num_entries(buff, key, expiry, num_entries) ==
    IF ~num_entries.ok THEN Raised(<<>>)
    ELSE Then(<<start_hash(key, num_entries.v, expiry, "zipmap", Len(buff))>>,
              Close(read_zipmap_items(buff, num_entries.pos, key), end_hash(key)))

\* read_zipmap after raw_string = self.read_string(f)
zipmap_of(key, expiry, raw) ==
    IF ~raw.ok THEN Raised(<<>>)
    ELSE After_blob(zipmap_num_entries(raw.buff, key, expiry, read_unsigned_char(raw.buff, 0)),
                    raw.pos)

read_zipmap(f, pos, key, expiry) == zipmap_of(key, expiry, read_blob(f, pos))

\* ------------------------------------------------------------------------
\* read_object and skip_object
\* ------------------------------------------------------------------------
read_object(f, pos, enc_type, key, expiry) ==
    CASE enc_type = REDIS_RDB_TYPE_STRING ->
            LET val == read_string(f, pos)
            IN  IF ~val.ok THEN Raised(<<>>)
                ELSE Returned(val.pos, <<set(key, val.v, expiry)>>)
      [] enc_type = REDIS_RDB_TYPE_LIST ->
            LET length == read_length(f, pos)
            IN  IF ~length.ok THEN Raised(<<>>)
                ELSE Then(<<start_list(key, length.v, expiry, "linkedlist", -1)>>,
                          Close(read_list_items(f, length.pos, length.v, key), end_list(key)))
      [] enc_type = REDIS_RDB_TYPE_SET ->
            LET cardinality == read_length(f, pos)
            IN  IF ~cardinality.ok THEN Raised(<<>>)
                ELSE Then(<<start_set(key, cardinality.v, expiry, "hashtable", -1)>>,
                          Close(read_set_items(f, cardinality.pos, cardinality.v, key),
                                end_set(key)))
      [] enc_type = REDIS_RDB_TYPE_ZSET ->
            LET length == read_length(f, pos)
            IN  IF ~length.ok THEN Raised(<<>>)
                ELSE Then(<<start_sorted_set(key, length.v, expiry, "skiplist", -1)>>,
                          Close(read_zset_items(f, length.pos, length.v, key),
                                end_sorted_set(key)))
      [] enc_type = REDIS_RDB_TYPE_HASH ->
            LET length == read_length(f, pos)
            IN  IF ~length.ok THEN Raised(<<>>)
                ELSE Then(<<start_hash(key, length.v, expiry, "hashtable", -1)>>,
                          Close(read_hash_items(f, length.pos, length.v, key), end_hash(key)))
      [] enc_type = REDIS_RDB_TYPE_HASH_ZIPMAP -> read_zipmap(f, pos, key, expiry)
      [] enc_type = REDIS_RDB_TYPE_LIST_ZIPLIST -> read_ziplist(f, pos, key, expiry)
      [] enc_type = REDIS_RDB_TYPE_SET_INTSET -> read_intset(f, pos, key, expiry)
      [] enc_type = REDIS_RDB_TYPE_ZSET_ZIPLIST -> read_zset_from_ziplist(f, pos, key, expiry)
      [] enc_type = REDIS_RDB_TYPE_HASH_ZIPLIST -> read_hash_from_ziplist(f, pos, key, expiry)
      [] OTHER -> Raised(<<>>)

RECURSIVE skip_strings(_, _, _)

\* one turn of the loop of skip_object, the string skipped
skip_strings_next(f, count, skipped) ==
    IF ~skipped.ok THEN Raised(<<>>) ELSE skip_strings(f, skipped.pos, count - 1)

\* for x in xrange(0, skip_strings): self.skip_string(f)
skip_strings(f, pos, count) ==
    IF count <= 0 THEN Returned(pos, <<>>)
    ELSE skip_strings_next(f, count, skip_string(f, pos))

\* skip_strings = self.read_length(f) * factor
skip_length(f, length, factor) ==
    IF ~length.ok THEN Raised(<<>>) ELSE skip_strings(f, length.pos, length.v * factor)

\* skip_object without its else branch: a type it does not know skips
\* no string
skip_object_of_any_type(f, pos, enc_type) ==
    CASE enc_type = REDIS_RDB_TYPE_STRING -> skip_strings(f, pos, 1)
      [] enc_type = REDIS_RDB_TYPE_LIST -> skip_length(f, read_length(f, pos), 1)
      [] enc_type = REDIS_RDB_TYPE_SET -> skip_length(f, read_length(f, pos), 1)
      [] enc_type = REDIS_RDB_TYPE_ZSET -> skip_length(f, read_length(f, pos), 2)
      [] enc_type = REDIS_RDB_TYPE_HASH -> skip_length(f, read_length(f, pos), 2)
      [] enc_type = REDIS_RDB_TYPE_HASH_ZIPMAP -> skip_strings(f, pos, 1)
      [] enc_type = REDIS_RDB_TYPE_LIST_ZIPLIST -> skip_strings(f, pos, 1)
      [] enc_type = REDIS_RDB_TYPE_SET_INTSET -> skip_strings(f, pos, 1)
      [] enc_type = REDIS_RDB_TYPE_ZSET_ZIPLIST -> skip_strings(f, pos, 1)
      [] enc_type = REDIS_RDB_TYPE_HASH_ZIPLIST -> skip_strings(f, pos, 1)
      [] OTHER -> skip_strings(f, pos, 0)

skip_object(f, pos, enc_type) ==
    CASE enc_type = REDIS_RDB_TYPE_STRING -> skip_strings(f, pos, 1)
      [] enc_type = REDIS_RDB_TYPE_LIST -> skip_length(f, read_length(f, pos), 1)
      [] enc_type = REDIS_RDB_TYPE_SET -> skip_length(f, read_length(f, pos), 1)
      [] enc_type = REDIS_RDB_TYPE_ZSET -> skip_length(f, read_length(f, pos), 2)
      [] enc_type = REDIS_RDB_TYPE_HASH -> skip_length(f, read_length(f, pos), 2)
      [] enc_type = REDIS_RDB_TYPE_HASH_ZIPMAP -> skip_strings(f, pos, 1)
      [] enc_type = REDIS_RDB_TYPE_LIST_ZIPLIST -> skip_strings(f, pos, 1)
      [] enc_type = REDIS_RDB_TYPE_SET_INTSET -> skip_strings(f, pos, 1)
      [] enc_type = REDIS_RDB_TYPE_ZSET_ZIPLIST -> skip_strings(f, pos, 1)
      [] enc_type = REDIS_RDB_TYPE_HASH_ZIPLIST -> skip_strings(f, pos, 1)
      [] OTHER -> Raised(<<>>)

skip_key_and_object(f, pos, data_type) ==
    LET k == skip_string(f, pos)
    IN  IF ~k.ok THEN Raised(<<>>) ELSE skip_object(f, k.pos, data_type)

\* ------------------------------------------------------------------------
\* The filter
\* ------------------------------------------------------------------------
\* The filters argument of RdbParser: dbs is a set of database numbers ({}
\* when the key is absent), keys is a regular expression made of literal
\* bytes (<<>> when absent) and types is a set of logical types ({} when the
\* key is absent).
init_filter(filters) ==
    [dbs |-> filters.dbs,
     keys |-> filters.keys,
     types |-> IF filters.types = {}
               THEN {"set", "hash", "sortedset", "string", "list"}
               ELSE filters.types]

\* self._filters['keys'].match(s): a literal pattern matches at the start
\* of s; the default ".*" matches every s
re_match(pattern, s) ==
    Len(s) >= Len(pattern) /\ SubSeq(s, 1, Len(pattern)) = pattern

\* get_logical_type raises KeyError for a type DATA_TYPE_MAPPING lacks
get_logical_type(data_type) ==
    IF data_type \in DOMAIN DATA_TYPE_MAPPING
    THEN [ok |-> TRUE, v |-> DATA_TYPE_MAPPING[data_type]]
    ELSE [ok |-> FALSE, v |-> ""]

\* matches_filter(db_number, key, data_type); a data_type of -1 stands for
\* None and PyNone for the key left out
matches_filter(filters, db_number, key, data_type) ==
    IF filters.dbs # {} /\ db_number \notin filters.dbs
    THEN [ok |-> TRUE, v |-> FALSE]
    ELSE IF Truthy(key) /\ ~re_match(filters.keys, str(key))
    THEN [ok |-> TRUE, v |-> FALSE]
    ELSE IF data_type # -1
    THEN LET t == get_logical_type(data_type)
         IN  [ok |-> t.ok, v |-> t.ok /\ t.v \in filters.types]
    ELSE [ok |-> TRUE, v |-> TRUE]

\* ------------------------------------------------------------------------
\* to_datetime: a datetime is seconds and microseconds since the epoch.
\* The seconds of the argument are computed and dropped; the base is the
\* constant the source sets.
\* ------------------------------------------------------------------------
to_datetime(usecs_since_epoch) ==
    LET seconds_since_epoch == usecs_since_epoch \div 1000000
        useconds == usecs_since_epoch % 1000000
        econds_since_epoch == 1385967984
    IN  [secs |-> econds_since_epoch, usecs |-> useconds]

\* ------------------------------------------------------------------------
\* RdbParser.parse as steps over the parser's state s
\* ------------------------------------------------------------------------
Magic == <<82, 69, 68, 73, 83>>

Failed(s) == [s EXCEPT !.pc = "failed"]

verify_magic_string(magic_string) == magic_string = Magic

\* verify_version with its upper bound off by one
verify_version_to_7(version_str) ==
    LET version == int(version_str)
    IN  version.ok /\ ~(version.v < 1 \/ version.v > 7)

\* version < 1 or version > 6 raises, and so does int(version_str)
verify_version(version_str) ==
    LET version == int(version_str)
    IN  version.ok /\ ~(version.v < 1 \/ version.v > 6)

\* the reads and checks before the loop, then start_rdb
parse_header(s) ==
    IF ~verify_magic_string(read(s.dump, 0, 5)) THEN Failed(s)
    ELSE IF ~verify_version(read(s.dump, tell(s.dump, 0, 5), 4)) THEN Failed(s)
    ELSE [s EXCEPT !.pc = "loop", !.pos = tell(s.dump, tell(s.dump, 0, 5), 4),
                   !.callbacks = <<start_rdb>>,
                   !.is_first_database = TRUE, !.db_number = 0]

\* the top of the loop without self._expiry = None
keep_expiry(s) == s

\* self._expiry = None at the top of the loop
reset_expiry(s) == [s EXCEPT !.expiry = <<>>]

\* the top of a turn of the loop; op_pos remembers where the turn began
loop_top(s) == [reset_expiry(s) EXCEPT !.op_pos = s.pos, !.path = ""]

\* data_type = read_unsigned_char(f) after an expiry
expiry_data_type(s, expiry, next) ==
    IF ~next.ok THEN Failed([s EXCEPT !.expiry = expiry])
    ELSE [s EXCEPT !.expiry = expiry, !.data_type = next.v,
                   !.pos = next.pos, !.key_pos = next.pos, !.pc = "dispatch"]

\* the opcode op read at the top of the loop
opcode_of(s, op) ==
    IF ~op.ok THEN Failed(s)
    ELSE IF op.v = REDIS_RDB_OPCODE_EXPIRETIME_MS
    THEN LET ms == read_unsigned_long(s.dump, op.pos)
         IN  IF ~ms.ok THEN Failed(s)
             ELSE expiry_data_type(s, <<to_datetime(ms.v * 1000)>>,
                                   read_unsigned_char(s.dump, ms.pos))
    ELSE IF op.v = REDIS_RDB_OPCODE_EXPIRETIME
    THEN LET secs == read_unsigned_int(s.dump, op.pos)
         IN  IF ~secs.ok THEN Failed(s)
             ELSE expiry_data_type(s, <<to_datetime(secs.v * 1000000)>>,
                                   read_unsigned_char(s.dump, secs.pos))
    ELSE [s EXCEPT !.data_type = op.v, !.pos = op.pos, !.key_pos = op.pos,
                   !.pc = "dispatch"]

\* the top of the loop: the opcode, and an expiry with the opcode after it
read_opcode(s) == opcode_of(loop_top(s), read_unsigned_char(s.dump, s.pos))

\* if not is_first_database: end_database(db_number); is_first_database = False
end_previous_database(s) ==
    [s EXCEPT !.callbacks = IF ~s.is_first_database
                            THEN Append(s.callbacks, end_database(s.db_number))
                            ELSE s.callbacks,
              !.is_first_database = FALSE]

\* db_number = self.read_length(f); start_database(db_number); continue
start_next_database(s, db) ==
    IF ~db.ok THEN Failed(s)
    ELSE [s EXCEPT !.callbacks = Append(s.callbacks, start_database(db.v)),
                   !.db_number = db.v, !.pos = db.pos, !.pc = "loop", !.path = "select_db"]

\* data_type == REDIS_RDB_OPCODE_SELECTDB
select_db(s) == start_next_database(end_previous_database(s), read_length(s.dump, s.pos))

\* the EOF branch guarded like the SELECTDB branch: end_database only when
\* a database was selected
end_of_file_selected(s) ==
    [s EXCEPT !.callbacks = IF s.is_first_database
                            THEN Append(s.callbacks, end_rdb)
                            ELSE s.callbacks \o <<end_database(s.db_number), end_rdb>>,
              !.pc = "done", !.path = "eof"]

\* the EOF branch reading the eight bytes of the checksum after the opcode
end_of_file_with_checksum(s) ==
    [s EXCEPT !.callbacks = s.callbacks \o <<end_database(s.db_number), end_rdb>>,
              !.pos = tell(s.dump, s.pos, 8),
              !.pc = "done", !.path = "eof"]

\* data_type == REDIS_RDB_OPCODE_EOF
end_of_file(s) ==
    [s EXCEPT !.callbacks = s.callbacks \o <<end_database(s.db_number), end_rdb>>,
              !.pc = "done", !.path = "eof"]

\* what a decoder or a skip did, applied to the parser's state
After(s, r, path) ==
    [s EXCEPT !.callbacks = s.callbacks \o r.cbs,
              !.pos = IF r.ok THEN r.pos ELSE s.pos,
              !.pc = IF r.ok THEN "loop" ELSE "failed",
              !.path = path]

\* the record decoded whatever matches_filter returned
read_object_unfiltered(s, pos, m) ==
    IF ~m.ok THEN Failed([s EXCEPT !.path = "read_key"])
    ELSE After(s, read_object(s.dump, pos, s.data_type, s.key, s.expiry), "read_object")

\* if self.matches_filter(db_number, self._key, data_type): read_object,
\* else skip_object; m is what matches_filter returned
read_or_skip_object(s, pos, m) ==
    IF ~m.ok THEN Failed([s EXCEPT !.path = "read_key"])
    ELSE IF m.v
    THEN After(s, read_object(s.dump, pos, s.data_type, s.key, s.expiry), "read_object")
    ELSE After(s, skip_object(s.dump, pos, s.data_type), "skip_object")

\* self._key = self.read_string(f), k read
key_of(s, k) ==
    IF ~k.ok THEN Failed([s EXCEPT !.path = "read_key"])
    ELSE read_or_skip_object([s EXCEPT !.key = k.v], k.pos,
                             matches_filter(s.filters, s.db_number, k.v, s.data_type))

\* the branch taken when matches_filter(db_number) holds
read_key_and_object(s) == key_of(s, read_string(s.dump, s.pos))

\* a record: data_type is neither SELECTDB nor EOF
record(s) ==
    IF matches_filter(s.filters, s.db_number, PyNone, -1).v
    THEN read_key_and_object(s)
    ELSE After(s, skip_key_and_object(s.dump, s.pos, s.data_type), "skip_key_and_object")

dispatch(s) ==
    IF s.data_type = REDIS_RDB_OPCODE_SELECTDB THEN select_db(s)
    ELSE IF s.data_type = REDIS_RDB_OPCODE_EOF THEN end_of_file(s)
    ELSE record(s)

\* ------------------------------------------------------------------------
\* The dumps and filters the parser is run on
\* ------------------------------------------------------------------------
\* the most records (or opcodes) in the body of a dump
MaxRecords == 2

\* a string with a 6-bit length prefix
Str(bytes) == <<Len(bytes)>> \o bytes

KeyA == Str(<<97>>)
KeyB == Str(<<98>>)

\* a ziplist blob: zlbytes, tail_offset, zllen, the entries, the end byte
Ziplist(zllen, entries, zlend) ==
    <<10 + Len(entries) + 1, 0, 0, 0, 10, 0, 0, 0, zllen, 0>> \o entries \o <<zlend>>

\* a plain ZSET of one member whose score is 64 bytes long: blanks, with
\* a list in ziplist encoding spelt in them, then "1".
LongScore ==
    <<9, 32, 32, 32, 32, 32, 32, 32, 32, 32>>
    \o <<10, 9>> \o <<32, 32, 32, 32, 32, 32, 32, 32, 32>>
    \o <<10>> \o <<32, 32, 32, 32, 32, 32, 32, 32, 9, 9>>
    \o [i \in 1 .. 31 |-> 32] \o <<49>>

Fragments ==
    { <<254, 0>>,                                                  \* SELECTDB 0
      <<254, 1>>,                                                  \* SELECTDB 1
      <<253, 2, 0, 0, 0, 254, 1>>,                                 \* EXPIRETIME 2, SELECTDB 1
      <<0>> \o KeyA \o Str(<<120>>),                               \* string a = "x"
      <<0>> \o KeyB \o Str(<<121>>),                               \* string b = "y"
      <<252, 220, 5, 0, 0, 0, 0, 0, 0, 0>> \o KeyA \o Str(<<120>>), \* EXPIRETIME_MS 1500
      <<253, 2, 0, 0, 0, 0>> \o KeyA \o Str(<<120>>),              \* EXPIRETIME 2
      <<253, 3, 0, 0, 0, 1>> \o KeyB \o <<1>> \o Str(<<120>>),     \* EXPIRETIME 3, a list
      <<0, 0>> \o Str(<<120>>),                                    \* string with the key ''
      <<0, 192, 0>> \o Str(<<120>>),                               \* string with the key 0 (INT8)
      <<0, 192, 97>> \o Str(<<120>>),                              \* string with the key 97 (INT8)
      <<0>> \o KeyA \o <<195, 4, 4, 0, 97, 32, 0>>,                \* string a = LZF "aaaa"
      <<1>> \o KeyA \o <<2>> \o Str(<<120>>) \o Str(<<121>>),      \* list a of 2
      <<2>> \o KeyB \o <<1>> \o Str(<<120>>),                      \* set b of 1
      <<3>> \o KeyA \o <<1>> \o Str(<<109>>) \o <<1, 49>>,         \* sorted set a, m scored "1"
      <<3>> \o KeyA \o <<1>> \o Str(<<109>>) \o <<64>> \o LongScore,
      <<4>> \o KeyB \o <<1>> \o Str(<<102>>) \o Str(<<118>>),      \* hash b, f = v
      <<9>> \o KeyA \o Str(<<1, 1, 102, 1, 0, 118, 255>>),         \* zipmap a, f = v
      <<9>> \o KeyA \o Str(<<2, 1, 102, 1, 0, 118, 255>>),         \* zipmap a, zmlen 2, one entry
      <<9>> \o KeyA \o Str(<<1, 1, 102, 255>>),                    \* zipmap a, 255 for the value
      <<10>> \o KeyA \o Str(Ziplist(1, <<0, 1, 120>>, 255)),       \* ziplist list a of 1
      <<10>> \o KeyA \o Str(Ziplist(1, <<0, 1, 120>>, 0)),         \* ziplist list a, bad end
      <<11>> \o KeyB \o Str(<<2, 0, 0, 0, 2, 0, 0, 0, 1, 0, 2, 0>>), \* intset b of 2
      <<11>> \o KeyB \o Str(<<3, 0, 0, 0, 1, 0, 0, 0, 1, 0, 2>>),  \* intset b, width 3
      <<12>> \o KeyA \o Str(Ziplist(2, <<0, 1, 109, 3, 242>>, 255)), \* ziplist sorted set a
      <<13>> \o KeyB \o Str(Ziplist(2, <<0, 1, 102, 3, 1, 118>>, 255)), \* ziplist hash b
      <<5>> \o KeyB \o Str(<<120>>)                                \* a type that does not exist
    }

RECURSIVE Concat(_)
Concat(seqs) == IF seqs = <<>> THEN <<>> ELSE seqs[1] \o Concat(Tail(seqs))

Bodies == UNION {[1 .. n -> Fragments] : n \in 0 .. MaxRecords}

\* the EOF opcode and a checksum, or a file that ends without them
Tails == {<<255, 1, 2, 3, 4, 5, 6, 7, 8>>, <<>>}

\* headers of all kinds in front of an empty body
Headers ==
    { Magic \o <<48, 48, 48, 54>>,        \* "0006"
      Magic \o <<48, 48, 48, 49>>,        \* "0001"
      Magic \o <<48, 48, 48, 48>>,        \* "0000"
      Magic \o <<48, 48, 48, 55>>,        \* "0007"
      Magic \o <<32, 32, 54, 32>>,        \* "  6 "
      Magic \o <<43, 48, 48, 54>>,        \* "+006"
      Magic \o <<45, 48, 48, 49>>,        \* "-001"
      Magic \o <<48, 48, 97, 54>>,        \* "00a6"
      <<82, 69, 68, 73, 88, 48, 48, 48, 54>>,        \* "REDIX0006"
      <<114, 101, 100, 105, 115, 48, 48, 48, 54>> }   \* "redis0006"

Dumps ==
    {Magic \o <<48, 48, 48, 54>> \o Concat(b) \o t : b \in Bodies, t \in Tails}
    \cup {h \o <<255>> : h \in Headers}
    \cup {Magic, Magic \o <<54>>, <<82, 69, 68>>}

FilterArgs ==
    { [dbs |-> {}, keys |-> <<>>, types |-> {}],
      [dbs |-> {1}, keys |-> <<>>, types |-> {}],
      [dbs |-> {}, keys |-> <<97>>, types |-> {}],
      [dbs |-> {}, keys |-> <<>>, types |-> {"string", "list"}] }

\* ------------------------------------------------------------------------
\* The state machine
\* ------------------------------------------------------------------------
VARIABLES
    dump,               \* the bytes of the file
    filters,            \* self._filters
    pc,                 \* "header", "loop", "dispatch", "done" or "failed"
    pos,                \* f.tell()
    callbacks,          \* the calls made on self._callback so far
    is_first_database,
    db_number,
    expiry,             \* self._expiry
    key,                \* self._key
    data_type,
    op_pos,             \* where this turn of the loop began reading
    key_pos,            \* where the bytes after its type byte begin
    path,               \* the branch the last turn of the loop took
    call,               \* a decoder called on its own: its name and arguments
    ret                 \* <<what the call returned>>, <<>> before it returns

vars == <<dump, filters, pc, pos, callbacks, is_first_database, db_number,
          expiry, key, data_type, op_pos, key_pos, path, call, ret>>

\* RdbParser(callback, filters) on the file d, before parse is called
Parser(d, filter_arg) ==
    [dump |-> d, filters |-> init_filter(filter_arg), pc |-> "header", pos |-> 0,
     callbacks |-> <<>>, is_first_database |-> TRUE, db_number |-> 0,
     expiry |-> <<>>, key |-> PyNone, data_type |-> -1,
     op_pos |-> 0, key_pos |-> 0, path |-> ""]

State ==
    [dump |-> dump, filters |-> filters, pc |-> pc, pos |-> pos,
     callbacks |-> callbacks, is_first_database |-> is_first_database,
     db_number |-> db_number, expiry |-> expiry, key |-> key,
     data_type |-> data_type, op_pos |-> op_pos, key_pos |-> key_pos, path |-> path]

Becomes(s) ==
    /\ dump' = s.dump
    /\ filters' = s.filters
    /\ pc' = s.pc
    /\ pos' = s.pos
    /\ callbacks' = s.callbacks
    /\ is_first_database' = s.is_first_database
    /\ db_number' = s.db_number
    /\ expiry' = s.expiry
    /\ key' = s.key
    /\ data_type' = s.data_type
    /\ op_pos' = s.op_pos
    /\ key_pos' = s.key_pos
    /\ path' = s.path

Starts(s) ==
    /\ dump = s.dump
    /\ filters = s.filters
    /\ pc = s.pc
    /\ pos = s.pos
    /\ callbacks = s.callbacks
    /\ is_first_database = s.is_first_database
    /\ db_number = s.db_number
    /\ expiry = s.expiry
    /\ key = s.key
    /\ data_type = s.data_type
    /\ op_pos = s.op_pos
    /\ key_pos = s.key_pos
    /\ path = s.path

Init ==
    /\ \E d \in Dumps, a \in FilterArgs : Starts(Parser(d, a))
    \* no decoder is called on its own while parse runs
    /\ call = [fn |-> "", f |-> <<>>, arg |-> 0]
    /\ ret = <<>>

ParseHeader ==
    /\ pc = "header"
    /\ Becomes(parse_header(State))
    /\ UNCHANGED <<call, ret>>

ReadOpcode ==
    /\ pc = "loop"
    /\ Becomes(read_opcode(State))
    /\ UNCHANGED <<call, ret>>

SelectDb ==
    /\ pc = "dispatch"
    /\ data_type = REDIS_RDB_OPCODE_SELECTDB
    /\ Becomes(select_db(State))
    /\ UNCHANGED <<call, ret>>

EndOfFile ==
    /\ pc = "dispatch"
    /\ data_type = REDIS_RDB_OPCODE_EOF
    /\ Becomes(end_of_file(State))
    /\ UNCHANGED <<call, ret>>

Record ==
    /\ pc = "dispatch"
    /\ data_type \notin {REDIS_RDB_OPCODE_SELECTDB, REDIS_RDB_OPCODE_EOF}
    /\ Becomes(record(State))
    /\ UNCHANGED <<call, ret>>

Next == ParseHeader \/ ReadOpcode \/ SelectDb \/ EndOfFile \/ Record

Spec == Init /\ [][Next]_vars

\* the whole parse of a parser state, as parse() runs it
RECURSIVE Run(_)
Run(s) ==
    CASE s.pc = "header" -> Run(parse_header(s))
      [] s.pc = "loop" -> Run(read_opcode(s))
      [] s.pc = "dispatch" -> Run(dispatch(s))
      [] OTHER -> s


\* ------------------------------------------------------------------------
\* The decoders called on their own, each on a byte source of its own that
\* starts at its first byte: the functions parse reaches through
\* read_object and skip_object, and those two themselves
\* ------------------------------------------------------------------------
\* the most bytes of a compressed string handed to lzf_decompress
MaxCompressed == 5

\* the greatest expected_length handed to lzf_decompress
MaxExpected == 10

\* the most bytes of a zipmap after its zmlen byte
MaxZipmap == 5

\* Each call is of one function on a byte source f that begins at the
\* first byte the function reads; arg is expected_length for
\* lzf_decompress and enc_type for read_object and skip_object.  While a
\* decoder is called on its own parse is not running, self._key is "k"
\* and self._expiry is None.
CallInit ==
    /\ Starts(Parser(<<>>, [dbs |-> {}, keys |-> <<>>, types |-> {}]))
    /\ ret = <<>>
    /\ \/ \* every first byte of a length prefix, before nothing, one byte,
          \* two, three, four and five
          \E b \in 0 .. 255 :
              \E t \in { <<>>, <<7>>, <<200, 100>>, <<1, 2, 3>>, <<1, 2, 3, 4>>,
                          <<0, 0, 0, 0>>, <<0, 0, 1, 0, 9>>, <<127, 255, 255, 127>> } :
                  call = [fn |-> "read_length_with_encoding", f |-> <<b>> \o t, arg |-> 0]
       \/ \* every selector of an encoded prefix, before an integer, before
          \* the LZF string "a" and before nothing
          \E selector \in 0 .. 63 :
              \E t \in {<<>>, <<5>>, <<5, 1>>, <<1, 0, 0, 0>>, <<2, 1, 0, 97>>} :
                  call = [fn |-> "read_string", f |-> <<192 + selector>> \o t, arg |-> 0]
       \/ \* raw strings, whole and cut short
          \E s \in {<<0>>, <<2, 97, 98>>, <<2, 97>>, <<64, 1, 97>>} :
              call = [fn |-> "read_string", f |-> s, arg |-> 0]
       \/ \* compressed strings: literal runs of one (0) and of two (1)
          \* bytes, back references of three bytes (32) and of nine and
          \* more (224), and the bytes "a" and "b"
          \E n \in 0 .. MaxCompressed :
              \E c \in [1 .. n -> {0, 1, 32, 224, 97, 98}], expected_length \in 0 .. MaxExpected :
                  call = [fn |-> "lzf_decompress", f |-> c, arg |-> expected_length]
       \/ \* ziplist entries: a prev_length of one byte and of five, every
          \* entry header, and after it nothing, one byte, four and eight
          \E p \in {<<0>>, <<254, 5, 0, 0, 0>>}, entry_header \in 0 .. 255 :
              \E t \in {<<>>, <<1>>, <<3, 120, 121, 122>>, <<1, 0, 0, 0, 0, 0, 0, 0>>} :
                  call = [fn |-> "read_ziplist_entry", f |-> p \o <<entry_header>> \o t,
                          arg |-> 0]
       \/ \* values of every type, the EOF opcode and more of the file
          \* after them
          \* after them.  A value is <<enc_type, its bytes>>.  The plain
          \* ZSETs have one member "m" whose score is n bytes long, blanks
          \* and then "1"; the ziplists end in zlend, in another byte, or
          \* are cut after their entries (zlend 256); the zipmaps are
          \* every string of the length bytes 0, 1 and 255 and the byte
          \* "f", and some with a length of five bytes, a free byte or a
          \* value that is an integer; the intsets have an encoding that is
          \* 2, 4 or 8 or another, and declare 0, 1 and 2 entries before no
          \* bytes, 2, 8 and 16.
          LET Blob(zllen, entries, zlend) ==
                  IF zlend = 256
                  THEN Str(SubSeq(Ziplist(zllen, entries, 255), 1, 10 + Len(entries)))
                  ELSE Str(Ziplist(zllen, entries, zlend))
              zlends == {255, 0, 254, 256}
              headers == {192, 193, 255}
          IN  \E fn \in {"read_object", "skip_object"} :
              \E v \in
                  { <<0, Str(<<120>>)>>, <<0, <<192, 5>>>>, <<0, <<193, 5, 1>>>>,
                    <<0, <<194, 1, 0, 0, 0>>>>, <<0, <<195, 4, 4, 0, 97, 32, 0>>>>,
                    <<0, <<196>>>>, <<0, <<255>>>>, <<0, <<10, 120>>>>,
                    <<1, <<2>> \o Str(<<120>>) \o Str(<<121>>)>>, <<1, <<1, 192, 5>>>>,
                    <<1, <<0>>>>, <<1, <<1, 196>>>>,
                    <<2, <<1>> \o Str(<<120>>)>>, <<2, <<2, 193, 5, 1, 1, 120>>>>,
                    <<4, <<1>> \o Str(<<102>>) \o Str(<<118>>)>>, <<4, <<1, 192, 5, 196>>>>,
                    <<9, Str(<<1, 1, 102, 1, 0, 118, 255>>)>>,
                    <<9, Str(<<2, 1, 102, 1, 0, 118, 255>>)>>,
                    <<11, Str(<<2, 0, 0, 0, 2, 0, 0, 0, 1, 0, 2, 0>>)>>,
                    <<11, Str(<<4, 0, 0, 0, 1, 0, 0, 0, 1, 0, 0, 0>>)>>,
                    <<5, Str(<<120>>)>>, <<6, Str(<<120>>)>>, <<14, Str(<<120>>)>>,
                    <<251, Str(<<120>>)>> }
                  \cup {<<3, <<1, 1, 109, n>> \o [i \in 1 .. n - 1 |-> 32] \o <<49>>>> :
                          n \in 1 .. 255}
                  \cup {<<9, Str(<<zmlen>> \o z)>> :
                          zmlen \in {0, 1},
                          z \in UNION {[1 .. n -> {0, 1, 102, 255}] : n \in 0 .. MaxZipmap}}
                  \cup {<<9, Str(z)>> :
                          z \in { <<1, 254, 1, 0, 0, 0, 102, 255>>,
                                  <<1, 254, 1, 0, 0, 0, 102, 1, 0, 118, 255>>,
                                  <<1, 1, 102, 254, 1, 0, 0, 0, 0, 118, 255>>,
                                  <<1, 1, 102, 254, 1, 0>>,
                                  <<1, 1, 102, 1, 2, 118, 7, 7, 255>>,
                                  <<1, 1, 102, 2, 0, 52, 50, 255>> }}
                  \cup {<<11, Str(<<encoding, 0, 0, 0, num_entries, 0, 0, 0>> \o entries)>> :
                          encoding \in {0, 1, 2, 3, 4, 5, 8, 16}, num_entries \in 0 .. 2,
                          entries \in {<<>>, <<1, 0>>, <<1, 0, 2, 0, 0, 0, 0, 0>>,
                                       <<1, 0, 0, 0, 0, 0, 0, 0, 2, 0, 0, 0, 0, 0, 0, 0>>}}
                  \cup {<<10, Blob(1, <<0, 1, 120>>, e)>> : e \in zlends}
                  \cup {<<10, Blob(2, <<0, 1, 120, 3, 243>>, e)>> : e \in zlends}
                  \cup {<<10, Blob(0, <<>>, e)>> : e \in zlends}
                  \cup {<<10, Blob(1, <<0, 5, 120>>, e)>> : e \in zlends}
                  \cup {<<10, Blob(1, <<0, h, 1, 0>>, 255)>> : h \in headers}
                  \cup {<<12, Blob(2, <<0, 1, 109, 3, 242>>, e)>> : e \in zlends}
                  \cup {<<12, Blob(2, <<0, 1, 109, 3, 1, 49>>, e)>> : e \in zlends}
                  \cup {<<12, Blob(2, <<0, 1, 109, 3, h, 1, 0>>, 255)>> : h \in headers}
                  \cup {<<13, Blob(2, <<0, 1, 102, 3, 1, 118>>, e)>> : e \in zlends}
                  \cup {<<13, Blob(4, <<0, 1, 102, 3, 1, 118, 3, 242, 2, 243>>, e)>> :
                          e \in zlends}
                  \cup {<<13, Blob(2, <<0, 1, 102, 3, h, 1, 0>>, 255)>> : h \in headers} :
                  call = [fn |-> fn, f |-> v[2] \o <<255, 1, 2>>, arg |-> v[1]]

ReadLengthWithEncoding ==
    /\ call.fn = "read_length_with_encoding"
    /\ ret = <<>>
    /\ ret' = <<read_length_with_encoding(call.f, 0)>>
    /\ UNCHANGED <<call, dump, filters, pc, pos, callbacks, is_first_database, db_number,
                   expiry, key, data_type, op_pos, key_pos, path>>

ReadString ==
    /\ call.fn = "read_string"
    /\ ret = <<>>
    /\ ret' = <<read_string(call.f, 0)>>
    /\ UNCHANGED <<call, dump, filters, pc, pos, callbacks, is_first_database, db_number,
                   expiry, key, data_type, op_pos, key_pos, path>>

LzfDecompress ==
    /\ call.fn = "lzf_decompress"
    /\ ret = <<>>
    /\ ret' = <<lzf_decompress(call.f, call.arg)>>
    /\ UNCHANGED <<call, dump, filters, pc, pos, callbacks, is_first_database, db_number,
                   expiry, key, data_type, op_pos, key_pos, path>>

ReadZiplistEntry ==
    /\ call.fn = "read_ziplist_entry"
    /\ ret = <<>>
    /\ ret' = <<read_ziplist_entry(call.f, 0)>>
    /\ UNCHANGED <<call, dump, filters, pc, pos, callbacks, is_first_database, db_number,
                   expiry, key, data_type, op_pos, key_pos, path>>

ReadObject ==
    /\ call.fn = "read_object"
    /\ ret = <<>>
    /\ ret' = <<read_object(call.f, 0, call.arg, PyStr(<<107>>), <<>>)>>
    /\ UNCHANGED <<call, dump, filters, pc, pos, callbacks, is_first_database, db_number,
                   expiry, key, data_type, op_pos, key_pos, path>>

SkipObject ==
    /\ call.fn = "skip_object"
    /\ ret = <<>>
    /\ ret' = <<skip_object(call.f, 0, call.arg)>>
    /\ UNCHANGED <<call, dump, filters, pc, pos, callbacks, is_first_database, db_number,
                   expiry, key, data_type, op_pos, key_pos, path>>

CallNext ==
    \/ ReadLengthWithEncoding
    \/ ReadString
    \/ LzfDecompress
    \/ ReadZiplistEntry
    \/ ReadObject
    \/ SkipObject

CallSpec == CallInit /\ [][CallNext]_vars


\* ------------------------------------------------------------------------
\* What the callback sequence is measured against
\* ------------------------------------------------------------------------
\* the callbacks that open a collection, the one that fills it and the one
\* that closes it
Opens == {"start_hash", "start_set", "start_list", "start_sorted_set"}

ElementOf(open) ==
    CASE open = "start_hash" -> "hset"
      [] open = "start_set" -> "sadd"
      [] open = "start_list" -> "rpush"
      [] OTHER -> "zadd"

CloserOf(open) ==
    CASE open = "start_hash" -> "end_hash"
      [] open = "start_set" -> "end_set"
      [] open = "start_list" -> "end_list"
      [] OTHER -> "end_sorted_set"

Ends == {"end_hash", "end_set", "end_list", "end_sorted_set", "end_database", "end_rdb"}

\* cbs from its i-th callback on is a sentence of
\*   start_rdb (start_database (record* ) end_database)* end_rdb
\* read from the place st: "start", "rdb" (between databases), "db" (in a
\* database), the name of the callback that opened a collection, or "end"
RECURSIVE Grammar(_, _, _)
Grammar(cbs, i, st) ==
    IF i > Len(cbs) THEN st = "end"
    ELSE CASE st = "start" -> cbs[i].name = "start_rdb" /\ Grammar(cbs, i + 1, "rdb")
           [] st = "rdb" ->
                \/ cbs[i].name = "start_database" /\ Grammar(cbs, i + 1, "db")
                \/ cbs[i].name = "end_rdb" /\ Grammar(cbs, i + 1, "end")
           [] st = "db" ->
                \/ cbs[i].name = "set" /\ Grammar(cbs, i + 1, "db")
                \/ cbs[i].name \in Opens /\ Grammar(cbs, i + 1, cbs[i].name)
                \/ cbs[i].name = "end_database" /\ Grammar(cbs, i + 1, "rdb")
           [] st \in Opens ->
                \/ cbs[i].name = ElementOf(st) /\ Grammar(cbs, i + 1, st)
                \/ cbs[i].name = CloserOf(st) /\ Grammar(cbs, i + 1, "db")
           [] OTHER -> FALSE

IsPrefix(a, b) == Len(a) <= Len(b) /\ SubSeq(b, 1, Len(a)) = a

\* a is b with some of its members left out
RECURSIVE IsSubseq(_, _)
IsSubseq(a, b) ==
    IF a = <<>> THEN TRUE
    ELSE IF b = <<>> THEN FALSE
    ELSE IF a[1] = b[1] THEN IsSubseq(Tail(a), Tail(b))
    ELSE IsSubseq(a, Tail(b))

\* the callbacks a step added
Added == SubSeq(callbacks', Len(callbacks) + 1, Len(callbacks'))

\* the parser is about to handle a record: a type byte that is neither
\* SELECTDB nor EOF
AtRecord ==
    /\ pc = "dispatch"
    /\ data_type \notin {REDIS_RDB_OPCODE_SELECTDB, REDIS_RDB_OPCODE_EOF}

\* ------------------------------------------------------------------------
\* C1
\* ------------------------------------------------------------------------
\* C1: when parse has completed without error, the callbacks made are a
\* sentence of start_rdb (start_database (record* ) end_database)* end_rdb.
C1_CallbacksFollowGrammar == pc = "done" => Grammar(callbacks, 1, "start")

\* ------------------------------------------------------------------------
\* C2
\* ------------------------------------------------------------------------
\* C2: between a start_X(key, n, ..) and the end_X that closes it there are
\* exactly n element callbacks, whatever the encoding.
C2_ElementCountIsLength ==
    \A i \in 1 .. Len(callbacks), j \in 1 .. Len(callbacks) :
        ( /\ i < j
          /\ callbacks[i].name \in Opens
          /\ callbacks[j].name = CloserOf(callbacks[i].name)
          /\ \A k \in i + 1 .. j - 1 : callbacks[k].name = ElementOf(callbacks[i].name) )
        => j - i - 1 = callbacks[i].length

\* ------------------------------------------------------------------------
\* C3
\* ------------------------------------------------------------------------
\* C3: a parse that read the EOF opcode ends its callbacks with
\* end_database(current db), end_rdb; when EOF is the first byte after the
\* header the callbacks are exactly start_rdb, end_database(0), end_rdb.
C3_EofEndsDatabaseAndRdb ==
    pc = "done" =>
        /\ Len(callbacks) >= 3
        /\ callbacks[Len(callbacks) - 1] = end_database(db_number)
        /\ callbacks[Len(callbacks)] = end_rdb
        /\ \A i \in 1 .. Len(callbacks) - 1 : callbacks[i].name # "end_rdb"
        /\ dump[10] = REDIS_RDB_OPCODE_EOF
              => callbacks = <<start_rdb, end_database(0), end_rdb>>

\* the empty dump "REDIS0006", EOF and a checksum, parsed
C3_EmptyDumpParsed ==
    /\ pc = "done"
    /\ dump = Magic \o <<48, 48, 48, 54, 255, 1, 2, 3, 4, 5, 6, 7, 8>>
    /\ callbacks = <<start_rdb, end_database(0), end_rdb>>

\* ------------------------------------------------------------------------
\* C4
\* ------------------------------------------------------------------------
\* int() of the bytes f.read(4) returned after a magic of "REDIS" is a
\* version from 1 to 6
HeaderAccepted ==
    /\ SubSeq(dump, 1, Min(5, Len(dump))) = <<82, 69, 68, 73, 83>>
    /\ int(SubSeq(dump, 6, Min(9, Len(dump)))).ok
    /\ int(SubSeq(dump, 6, Min(9, Len(dump)))).v \in 1 .. 6

ExpiryOpcodeBeforeType ==
    /\ op_pos < Len(dump)
    /\ \/ dump[op_pos + 1] = REDIS_RDB_OPCODE_EXPIRETIME_MS /\ key_pos = op_pos + 10
       \/ dump[op_pos + 1] = REDIS_RDB_OPCODE_EXPIRETIME /\ key_pos = op_pos + 6

\* C5: when a type byte has been read, the pending expiry is set if and
\* only if an expiry opcode came immediately before that type byte in the
\* same turn of the loop, so none is left over from an earlier record or
\* SELECTDB; and the expiry a record's set/start_X is called with is that
\* pending expiry.
C5_ExpiryStaysWithItsRecord ==
    /\ [](pc = "dispatch" => (expiry # <<>> <=> ExpiryOpcodeBeforeType))
    /\ [][(AtRecord /\ Added # <<>>) =>
            /\ Added[1].name \in Opens \cup {"set"}
            /\ Added[1].expiry = expiry
            /\ \A i \in 2 .. Len(Added) : Added[i].expiry = <<>>]_vars

\* a record without an expiry is about to be handled after a record that
\* had one was decoded
C5_PlainRecordAfterExpiring ==
    /\ AtRecord
    /\ expiry = <<>>
    /\ \E i \in 1 .. Len(callbacks) : callbacks[i].expiry # <<>>

\* ------------------------------------------------------------------------
\* C6
\* ------------------------------------------------------------------------
\* the instant the expiry opcode at op_pos stores, in microseconds
StoredMicroseconds ==
    IF dump[op_pos + 1] = REDIS_RDB_OPCODE_EXPIRETIME_MS
    THEN LE(SubSeq(dump, op_pos + 2, op_pos + 9)) * 1000
    ELSE LE(SubSeq(dump, op_pos + 2, op_pos + 5)) * 1000000

\* C6: the expiry a decoded record was delivered with is the instant its
\* expiry opcode stores: StoredMicroseconds after the epoch.
C6_ExpiryIsStoredInstant ==
    ( /\ path = "read_object"
      /\ expiry # <<>>
      /\ \E i \in 1 .. Len(callbacks) : callbacks[i].expiry = expiry )
    => /\ expiry[1].secs = StoredMicroseconds \div 1000000
       /\ expiry[1].usecs = StoredMicroseconds % 1000000

\* ------------------------------------------------------------------------
\* C7
\* ------------------------------------------------------------------------
\* the filter as the claim states it, for a key that was read and a type
\* DATA_TYPE_MAPPING knows
FilterAccepts(f, db, k, type) ==
    /\ f.dbs = {} \/ db \in f.dbs
    /\ re_match(f.keys, str(k))
    /\ DATA_TYPE_MAPPING[type] \in f.types

\* C7: a record with a readable key and a known type was handed to
\* read_object if and only if its database, key and logical type pass the
\* filter; the key is the one read at key_pos, the empty key and integer
\* keys included.
C7_DecodedIffFilterAccepts ==
    ( /\ path \in {"read_object", "skip_object", "skip_key_and_object"}
      /\ data_type \in DOMAIN DATA_TYPE_MAPPING
      /\ read_string(dump, key_pos).ok )
    => ( path = "read_object"
         <=> FilterAccepts(filters, db_number, read_string(dump, key_pos).v, data_type) )

\* ------------------------------------------------------------------------
\* C8
\* ------------------------------------------------------------------------
\* matches_filter refuses the record at hand, by its database or, the key
\* read, by its key or type
Rejected ==
    \/ ~matches_filter(filters, db_number, PyNone, -1).v
    \/ /\ read_string(dump, pos).ok
       /\ matches_filter(filters, db_number, read_string(dump, pos).v, data_type).ok
       /\ ~matches_filter(filters, db_number, read_string(dump, pos).v, data_type).v

\* read_object would return on the record at hand
Decodable ==
    /\ read_string(dump, pos).ok
    /\ read_object(dump, read_string(dump, pos).pos, data_type,
                   read_string(dump, pos).v, expiry).ok

Wider(n, w) ==
    /\ w.dbs = {} \/ (n.dbs # {} /\ n.dbs \subseteq w.dbs)
    /\ IsPrefix(w.keys, n.keys)
    /\ n.types \subseteq w.types

\* C9: the callbacks of the parse of a dump under a filter are, in order,
\* among the callbacks of its parse under any wider filter; stated for the
\* wider parses that complete without error.
C9_NarrowCallbacksAmongWide ==
    pc = "header" =>
        \A w \in FilterArgs :
            (Wider(filters, init_filter(w)) /\ Run(Parser(dump, w)).pc = "done")
            => IsSubseq(Run(State).callbacks, Run(Parser(dump, w)).callbacks)

\* ------------------------------------------------------------------------
\* C10
\* ------------------------------------------------------------------------
\* C10: a parse that failed never moves again and has not called end_rdb;
\* the step that fails keeps the callbacks made before it and adds no
\* end_X, end_database or end_rdb, but for the end_database of the previous
\* database that SELECTDB calls before it reads the number of the next.
C10_ErrorAbortsParse ==
    /\ [](pc = "failed" => \A i \in 1 .. Len(callbacks) : callbacks[i].name # "end_rdb")
    /\ [][pc # "failed"]_vars
    /\ [][pc' = "failed" =>
            /\ IsPrefix(callbacks, callbacks')
            /\ \A i \in 1 .. Len(Added) :
                 Added[i].name \in Ends =>
                    /\ data_type = REDIS_RDB_OPCODE_SELECTDB
                    /\ Added = <<end_database(db_number)>>]_vars

\* a list in ziplist encoding failed at its end byte: start_list and rpush
\* were called, end_list was not
C10_ZiplistFailedAtEnd ==
    /\ pc = "failed"
    /\ path = "read_object"
    /\ data_type = REDIS_RDB_TYPE_LIST_ZIPLIST
    /\ callbacks[Len(callbacks)].name = "rpush"

\* ------------------------------------------------------------------------
\* C11
\* ------------------------------------------------------------------------
\* the callbacks of the whole parse of the bytes d under the filters of
\* this parser
CallbacksOn(d) == Run(Parser(d, filters)).callbacks

\* C11: a parse that completed has consumed the file up to and including
\* the EOF opcode it stopped at and no byte more (f.tell() is the place
\* right after that opcode); end_rdb is its last callback and is made once;
\* the turn that reads EOF completes the parse at once, and nothing is read
\* afterwards; the callbacks are those of the file cut after the EOF
\* opcode and of the file with other bytes after it.
C11_ReadsUpToEof ==
    /\ [](pc = "done" =>
            /\ pos \in 10 .. Len(dump)
            /\ dump[pos] = REDIS_RDB_OPCODE_EOF
            /\ callbacks[Len(callbacks)] = end_rdb
            /\ \A i \in 1 .. Len(callbacks) - 1 : callbacks[i].name # "end_rdb"
            /\ CallbacksOn(SubSeq(dump, 1, pos)) = callbacks
            /\ CallbacksOn(SubSeq(dump, 1, pos) \o <<0, 254, 255>>) = callbacks)
    /\ [][(pc = "dispatch" /\ data_type = REDIS_RDB_OPCODE_EOF)
            => (pc' = "done" /\ pos' = pos)]_vars
    /\ [][pc # "done"]_vars

\* a dump with records was parsed to its EOF opcode, the eight bytes of
\* the checksum still unread
C11_ChecksumLeftUnread ==
    /\ pc = "done"
    /\ pos + 8 = Len(dump)
    /\ Len(callbacks) > 3

\* ------------------------------------------------------------------------
\* C12
\* ------------------------------------------------------------------------
\* C12: when the byte after an expiry opcode and its value is SELECTDB,
\* the turn of the loop that handles it fails, and start_database is not
\* called for it.
C12_ExpiryBeforeSelectDbFails ==
    ( /\ data_type = REDIS_RDB_OPCODE_SELECTDB
      /\ ExpiryOpcodeBeforeType
      /\ pc # "dispatch" )
    => (pc = "failed" /\ path # "select_db")

\* ------------------------------------------------------------------------
\* C13
\* ------------------------------------------------------------------------
\* C13: the turn that handles a record whose type byte is none of
\* 0,1,2,3,4,9,10,11,12,13 (nor 252..255) fails and makes no callback,
\* whether matches_filter accepts the record's database or not.
C13_UnknownTypeAborts ==
    [][( /\ AtRecord
         /\ data_type \notin DOMAIN DATA_TYPE_MAPPING
         /\ data_type \notin 252 .. 255 )
        => (pc' = "failed" /\ callbacks' = callbacks)]_vars

\* a record of a type that does not exist failed in skip_key_and_object,
\* its database refused by the filter
C13_UnknownTypeFailedInSkip ==
    /\ pc = "failed"
    /\ path = "skip_key_and_object"
    /\ data_type \notin DOMAIN DATA_TYPE_MAPPING
    /\ data_type \notin 252 .. 255
    /\ filters.dbs # {} /\ db_number \notin filters.dbs

\* ------------------------------------------------------------------------
\* C14
\* ------------------------------------------------------------------------
\* C14: where read_object returns on a value, skip_object on the same
\* bytes returns too and leaves the stream at the same place.
C14_SkipEndsWhereReadEnds ==
    (call.fn = "read_object" /\ ret # <<>> /\ ret[1].ok) =>
        /\ skip_object(call.f, 0, call.arg).ok
        /\ skip_object(call.f, 0, call.arg).pos = ret[1].pos

\* ------------------------------------------------------------------------
\* C15
\* ------------------------------------------------------------------------
\* C15: read_length_with_encoding on the bytes f, from the top two bits of
\* the first byte b: 00 gives (b mod 64, not encoded) after 1 byte; 01
\* gives ((b mod 64) * 256 + b2, not encoded) after 2 bytes; 10 gives the
\* next four bytes as a big-endian number, not encoded, after 5 bytes; 11
\* gives (b mod 64, encoded) after 1 byte.  It raises when the bytes it
\* needs are not there.
C15_LengthPrefixDecoded ==
    (call.fn = "read_length_with_encoding" /\ ret # <<>>) =>
        CASE call.f[1] \div 64 = 0 ->
                /\ ret[1].ok
                /\ ret[1].length = call.f[1] % 64
                /\ ~ret[1].is_encoded
                /\ ret[1].pos = 1
          [] call.f[1] \div 64 = 1 ->
                IF Len(call.f) < 2 THEN ~ret[1].ok
                ELSE /\ ret[1].ok
                     /\ ret[1].length = (call.f[1] % 64) * 256 + call.f[2]
                     /\ ~ret[1].is_encoded
                     /\ ret[1].pos = 2
          [] call.f[1] \div 64 = 2 ->
                IF Len(call.f) < 5 THEN ~ret[1].ok
                ELSE /\ ret[1].ok
                     /\ ret[1].length = call.f[2] * 16777216 + call.f[3] * 65536
                                        + call.f[4] * 256 + call.f[5]
                     /\ ~ret[1].is_encoded
                     /\ ret[1].pos = 5
          [] OTHER ->
                /\ ret[1].ok
                /\ ret[1].length = call.f[1] % 64
                /\ ret[1].is_encoded
                /\ ret[1].pos = 1

\* the 32-bit form read: 10xxxxxx, then 01 02 03 04 gives 16909060
C15_BigEndianLengthRead ==
    /\ call.fn = "read_length_with_encoding"
    /\ call.f = <<129, 1, 2, 3, 4>>
    /\ ret = <<[ok |-> TRUE, length |-> 16909060, is_encoded |-> FALSE, pos |-> 5]>>

\* ------------------------------------------------------------------------
\* C16
\* ------------------------------------------------------------------------
\* C16: read_string on an encoded length prefix (first byte 11xxxxxx)
\* whose selector is none of 0, 1, 2, 3 raises, and read_object on a
\* STRING value that begins so raises without calling set.
C16_UnknownSelectorFails ==
    /\ (call.fn = "read_string" /\ ret # <<>> /\ call.f[1] >= 196) => ~ret[1].ok
    /\ ( /\ call.fn = "read_object"
         /\ ret # <<>>
         /\ call.arg = REDIS_RDB_TYPE_STRING
         /\ call.f[1] >= 196 )
       => (~ret[1].ok /\ ret[1].cbs = <<>>)

\* ------------------------------------------------------------------------
\* C17
\* ------------------------------------------------------------------------
\* C17: lzf_decompress(C, U) returns a byte string of exactly U bytes or
\* raises.
C17_LzfLengthIsExpected ==
    (call.fn = "lzf_decompress" /\ ret # <<>> /\ ret[1].ok) =>
        (ret[1].v.t = "str" /\ Len(ret[1].v.s) = call.arg)

\* "a" and a back reference of three bytes to it, declared as four bytes,
\* returned "aaaa"
C17_FourBytesReturned ==
    /\ call = [fn |-> "lzf_decompress", f |-> <<0, 97, 32, 0>>, arg |-> 4]
    /\ ret = <<[ok |-> TRUE, v |-> PyStr(<<97, 97, 97, 97>>)]>>

\* ------------------------------------------------------------------------
\* C18
\* ------------------------------------------------------------------------
\* LZF as the claim words it, on the compressed bytes C from its i-th
\* byte with the output out so far.  A literal run appends the next
\* ctrl + 1 bytes of C.  A back reference of L + 2 bytes from the output
\* index ref, copied byte by byte, repeats the Len(out) - ref bytes from
\* ref to the end of the output for as long as it goes.  The stream is not
\* well formed (ok is false) when it ends inside a run or a reference or
\* when ref is before the start of the output.
RECURSIVE Lzf(_, _, _)
Lzf(C, i, out) ==
    IF i > Len(C) THEN [ok |-> TRUE, out |-> out]
    ELSE IF C[i] < 32
    THEN IF i + C[i] + 1 > Len(C) THEN [ok |-> FALSE, out |-> out]
         ELSE Lzf(C, i + C[i] + 2, out \o SubSeq(C, i + 1, i + C[i] + 1))
    ELSE LET long == C[i] \div 32 = 7
             j == IF long THEN i + 2 ELSE i + 1
             L == IF long /\ i + 1 <= Len(C) THEN 7 + C[i + 1] ELSE C[i] \div 32
             ref == Len(out) - (C[i] % 32) * 256 - C[j] - 1
         IN  IF j > Len(C) \/ ref < 0 THEN [ok |-> FALSE, out |-> out]
             ELSE Lzf(C, j + 1,
                      out \o [k \in 1 .. L + 2 |-> out[ref + 1 + ((k - 1) % (Len(out) - ref))]])

\* C18: on a well-formed compressed string C, lzf_decompress(C, U) returns
\* when U is the length of what LZF, as the claim words it, makes of C,
\* and then returns exactly those bytes; otherwise it raises.
C18_LzfIsStandard ==
    (call.fn = "lzf_decompress" /\ ret # <<>> /\ Lzf(call.f, 1, <<>>).ok) =>
        IF Len(Lzf(call.f, 1, <<>>).out) = call.arg
        THEN ret[1] = [ok |-> TRUE, v |-> PyStr(Lzf(call.f, 1, <<>>).out)]
        ELSE ~ret[1].ok

\* "ab" and a back reference of three bytes that begins at "a" and runs
\* over what it writes: "ababa"
C18_OverlappingReferenceRepeats ==
    /\ call = [fn |-> "lzf_decompress", f |-> <<1, 97, 98, 32, 1>>, arg |-> 5]
    /\ ret = <<[ok |-> TRUE, v |-> PyStr(<<97, 98, 97, 98, 97>>)]>>

\* ------------------------------------------------------------------------
\* C19
\* ------------------------------------------------------------------------
\* the blob of a packed value: the bytes of f after a 6-bit length prefix
BlobOf(f) == SubSeq(f, 2, 1 + f[1])

\* zllen of a ziplist blob: the unsigned short at offset 8
Zllen(buff) == buff[9] + 256 * buff[10]

\* where n entries of the ziplist buff that begin at offset from end; not ok when
\* one of them cannot be read
RECURSIVE EntriesEnd(_, _, _)
EntriesEnd(buff, from, n) ==
    IF n = 0 THEN [ok |-> TRUE, pos |-> from]
    ELSE IF ~read_ziplist_entry(buff, from).ok THEN [ok |-> FALSE, pos |-> from]
    ELSE EntriesEnd(buff, read_ziplist_entry(buff, from).pos, n - 1)

\* the call decodes a value in ziplist encoding whose zllen entries can be
\* read and are not followed by the byte 255: another byte follows them,
\* or none
ZiplistNotEnded ==
    /\ call.fn = "read_object"
    /\ call.arg \in {REDIS_RDB_TYPE_LIST_ZIPLIST, REDIS_RDB_TYPE_ZSET_ZIPLIST,
                     REDIS_RDB_TYPE_HASH_ZIPLIST}
    /\ EntriesEnd(BlobOf(call.f), 10, Zllen(BlobOf(call.f))).ok
    /\ \/ EntriesEnd(BlobOf(call.f), 10, Zllen(BlobOf(call.f))).pos >= Len(BlobOf(call.f))
       \/ BlobOf(call.f)[EntriesEnd(BlobOf(call.f), 10, Zllen(BlobOf(call.f))).pos + 1] # 255

\* C19: read_ziplist, read_zset_from_ziplist and read_hash_from_ziplist
\* raise when the byte after the zllen declared entries is not 0xFF, and
\* none of them has called end_list, end_sorted_set or end_hash.
C19_ZiplistEndChecked ==
    (ZiplistNotEnded /\ ret # <<>>) =>
        /\ ~ret[1].ok
        /\ \A i \in 1 .. Len(ret[1].cbs) :
              ret[1].cbs[i].name \notin {"end_list", "end_sorted_set", "end_hash"}

\* a hash in ziplist encoding with the byte 0 after its two entries:
\* start_hash and hset were called, then the decoder raised
C19_HashZiplistNotEnded ==
    /\ ZiplistNotEnded
    /\ call.arg = REDIS_RDB_TYPE_HASH_ZIPLIST
    /\ ret # <<>>
    /\ ~ret[1].ok
    /\ Len(ret[1].cbs) = 2
    /\ ret[1].cbs[2].name = "hset"

\* ------------------------------------------------------------------------
\* C20
\* ------------------------------------------------------------------------
\* the entry headers the claim lists: 00xxxxxx, 01xxxxxx, 10xxxxxx, 0xC0,
\* 0xD0, 0xE0, 0xF0, 0xFE and 0xF1..0xFD
ListedHeaders == (0 .. 191) \cup {192, 208, 224, 240, 254} \cup (241 .. 253)

\* the header of the entry of buff that begins at offset from: the byte
\* after prev_length, which is one byte or, from 254 on, five
HeaderAt(buff, from) == IF buff[from + 1] = 254 THEN buff[from + 6] ELSE buff[from + 2]

\* one of the first n entries of the ziplist buff, read from offset from
\* on, has a header that is not listed, the entries before it readable
RECURSIVE UnlistedHeaderIn(_, _, _)
UnlistedHeaderIn(buff, from, n) ==
    /\ n > 0
    /\ from + 2 <= Len(buff)
    /\ \/ HeaderAt(buff, from) \notin ListedHeaders
       \/ /\ read_ziplist_entry(buff, from).ok
          /\ UnlistedHeaderIn(buff, read_ziplist_entry(buff, from).pos, n - 1)

\* C20: read_ziplist_entry raises on an entry whose header is not one of
\* the listed patterns, and a ziplist decoder that meets such an entry
\* among its zllen entries raises.
C20_UnlistedHeaderFails ==
    /\ ( /\ call.fn = "read_ziplist_entry"
         /\ ret # <<>>
         /\ HeaderAt(call.f, 0) \notin ListedHeaders )
       => ~ret[1].ok
    /\ ( /\ call.fn = "read_object"
         /\ call.arg \in {REDIS_RDB_TYPE_LIST_ZIPLIST, REDIS_RDB_TYPE_ZSET_ZIPLIST,
                          REDIS_RDB_TYPE_HASH_ZIPLIST}
         /\ ret # <<>>
         /\ UnlistedHeaderIn(BlobOf(call.f), 10, Zllen(BlobOf(call.f))) )
       => ~ret[1].ok

\* ------------------------------------------------------------------------
\* C21
\* ------------------------------------------------------------------------
\* the length slot of the zipmap buff at offset from: the byte 255 (end),
\* a byte below 254 that is the length, or 254 and the length in the four
\* bytes after it, least significant first; none when buff ends in it
LengthSlot(buff, from) ==
    IF from >= Len(buff) THEN [slot |-> "none", v |-> 0, pos |-> from]
    ELSE IF buff[from + 1] = 255 THEN [slot |-> "end", v |-> 0, pos |-> from + 1]
    ELSE IF buff[from + 1] < 254 THEN [slot |-> "length", v |-> buff[from + 1], pos |-> from + 1]
    ELSE IF from + 5 > Len(buff) THEN [slot |-> "none", v |-> 0, pos |-> from]
    ELSE [slot |-> "length",
          v |-> buff[from + 2] + 256 * buff[from + 3] + 65536 * buff[from + 4]
                    + 16777216 * buff[from + 5],
          pos |-> from + 5]

\* the entries of the zipmap buff from offset from on, after n entries:
\* the slot in which the byte 255 is met first ("key" or "value") and the
\* number of whole entries before it; "none" when buff ends before a
\* length or a free byte could be read
RECURSIVE ZipmapEnd(_, _, _)
ZipmapEnd(buff, from, n) ==
    LET key_length == LengthSlot(buff, from)
        value_length == LengthSlot(buff, Min(key_length.pos + key_length.v, Len(buff)))
        value == value_length.pos + 1
        free == buff[value_length.pos + 1]
    IN  IF key_length.slot = "none" THEN [slot |-> "none", entries |-> n]
        ELSE IF key_length.slot = "end" THEN [slot |-> "key", entries |-> n]
        ELSE IF value_length.slot = "none" THEN [slot |-> "none", entries |-> n]
        ELSE IF value_length.slot = "end" THEN [slot |-> "value", entries |-> n]
        ELSE IF value_length.pos >= Len(buff) THEN [slot |-> "none", entries |-> n]
        ELSE ZipmapEnd(buff, Min(Min(value + value_length.v, Len(buff)) + free, Len(buff)),
                       n + 1)

\* the callbacks of cbs that are named name
Named(cbs, name) == {i \in 1 .. Len(cbs) : cbs[i].name = name}

\* C21: read_zipmap that reads the byte 0xFF where a key length is due
\* leaves the loop and calls end_hash(key); when it reads 0xFF where a
\* value length is due it raises, having called hset for the entries
\* before only and not end_hash.
C21_ZipmapEnd ==
    ( /\ call.fn = "read_object"
      /\ call.arg = REDIS_RDB_TYPE_HASH_ZIPMAP
      /\ ret # <<>>
      /\ Len(BlobOf(call.f)) > 0 )
    => /\ ZipmapEnd(BlobOf(call.f), 1, 0).slot = "key"
          => /\ ret[1].ok
             /\ ret[1].cbs[Len(ret[1].cbs)] = end_hash(PyStr(<<107>>))
             /\ Named(ret[1].cbs, "end_hash") = {Len(ret[1].cbs)}
             /\ Cardinality(Named(ret[1].cbs, "hset")) = ZipmapEnd(BlobOf(call.f), 1, 0).entries
       /\ ZipmapEnd(BlobOf(call.f), 1, 0).slot = "value"
          => /\ ~ret[1].ok
             /\ Named(ret[1].cbs, "end_hash") = {}
             /\ Cardinality(Named(ret[1].cbs, "hset")) = ZipmapEnd(BlobOf(call.f), 1, 0).entries

\* a zipmap of one whole entry and then a key whose value length is 0xFF:
\* start_hash and one hset were called, then read_zipmap raised
C21_EndInValueSlot ==
    /\ call.fn = "read_object"
    /\ call.arg = REDIS_RDB_TYPE_HASH_ZIPMAP
    /\ ret # <<>>
    /\ ZipmapEnd(BlobOf(call.f), 1, 0) = [slot |-> "value", entries |-> 1]
    /\ ~ret[1].ok
    /\ Len(ret[1].cbs) = 2
    /\ ret[1].cbs[2].name = "hset"

\* ------------------------------------------------------------------------
\* C22
\* ------------------------------------------------------------------------
\* the call decodes an intset whose blob holds its two header words and
\* whose encoding, the first of them, is not 2, 4 or 8
IntsetOfUnknownWidth ==
    /\ call.fn = "read_object"
    /\ call.arg = REDIS_RDB_TYPE_SET_INTSET
    /\ Len(BlobOf(call.f)) >= 8
    /\ BlobOf(call.f)[1] + 256 * BlobOf(call.f)[2] + 65536 * BlobOf(call.f)[3]
           + 16777216 * BlobOf(call.f)[4] \notin {2, 4, 8}

\* C22: read_intset raises on an intset whose encoding is not 2, 4 or 8,
\* whatever the number of entries it declares, zero included, and does
\* not call end_set.
C22_UnknownWidthFails ==
    (IntsetOfUnknownWidth /\ ret # <<>>) =>
        /\ ~ret[1].ok
        /\ Named(ret[1].cbs, "end_set") = {}

\* ------------------------------------------------------------------------
\* C23
\* ------------------------------------------------------------------------
\* read_string on a length prefix of one byte, 00xxxxxx, returns a string
\* of the length the prefix declares
StringOfDeclaredLength ==
    ( /\ call.fn = "read_string"
      /\ ret # <<>>
      /\ call.f # <<>>
      /\ call.f[1] < 64
      /\ ret[1].ok )
    => /\ ret[1].v.t = "str"
       /\ Len(ret[1].v.s) = call.f[1]

\* read_ziplist_entry on a prev_length of one byte and an entry header
\* 00xxxxxx returns a string of the length the header declares
EntryOfDeclaredLength ==
    ( /\ call.fn = "read_ziplist_entry"
      /\ ret # <<>>
      /\ Len(call.f) >= 2
      /\ call.f[1] # 254
      /\ call.f[2] < 64
      /\ ret[1].ok )
    => /\ ret[1].v.t = "str"
       /\ Len(ret[1].v.s) = call.f[2]

\* the value of set, for a STRING whose length prefix is 00xxxxxx, has
\* the length the prefix declares
SetOfDeclaredLength ==
    ( /\ call.fn = "read_object"
      /\ call.arg = REDIS_RDB_TYPE_STRING
      /\ ret # <<>>
      /\ call.f[1] < 64 )
    => \A i \in Named(ret[1].cbs, "set") : Len(ret[1].cbs[i].x.s) = call.f[1]

\* the value of the first rpush of a list in ziplist encoding whose first
\* entry has a prev_length of one byte and a header 00xxxxxx has the
\* length the header declares
RpushOfDeclaredLength ==
    ( /\ call.fn = "read_object"
      /\ call.arg = REDIS_RDB_TYPE_LIST_ZIPLIST
      /\ ret # <<>>
      /\ Len(BlobOf(call.f)) >= 12
      /\ BlobOf(call.f)[11] # 254
      /\ BlobOf(call.f)[12] < 64
      /\ Len(ret[1].cbs) >= 2
      /\ ret[1].cbs[2].name = "rpush" )
    => Len(ret[1].cbs[2].x.s) = BlobOf(call.f)[12]

\* the value of the first hset of a zipmap whose first key length and
\* value length are one byte each, when it is a string, has the length
\* the value length declares
HsetOfDeclaredLength ==
    ( /\ call.fn = "read_object"
      /\ call.arg = REDIS_RDB_TYPE_HASH_ZIPMAP
      /\ ret # <<>>
      /\ Len(BlobOf(call.f)) >= 2
      /\ BlobOf(call.f)[2] < 254
      /\ Len(BlobOf(call.f)) >= 3 + BlobOf(call.f)[2]
      /\ BlobOf(call.f)[3 + BlobOf(call.f)[2]] < 254
      /\ Len(ret[1].cbs) >= 2
      /\ ret[1].cbs[2].name = "hset"
      /\ ret[1].cbs[2].y.t = "str" )
    => /\ Len(ret[1].cbs[2].x.s) = BlobOf(call.f)[2]
       /\ Len(ret[1].cbs[2].y.s) = BlobOf(call.f)[3 + BlobOf(call.f)[2]]

\* C23: a byte string that read_string or read_ziplist_entry returns, and
\* one that set, rpush or hset receives, has the length its length prefix
\* or entry header declares; when the byte source or the blob is shorter
\* the call raises, and no callback has received a shortened value.
C23_DeclaredLengthDelivered ==
    /\ StringOfDeclaredLength
    /\ EntryOfDeclaredLength
    /\ SetOfDeclaredLength
    /\ RpushOfDeclaredLength
    /\ HsetOfDeclaredLength

\* ------------------------------------------------------------------------
\* C24
\* ------------------------------------------------------------------------
\* the compressed bytes C, read from the i-th on with o bytes of output
\* made, hold a back reference whose first source index is below 0, and
\* every run and reference before it is whole and has a source index
\* that is not
RECURSIVE RefBeforeStart(_, _, _)
RefBeforeStart(C, i, o) ==
    /\ i <= Len(C)
    /\ IF C[i] < 32
       THEN /\ i + C[i] + 1 <= Len(C)
            /\ RefBeforeStart(C, i + C[i] + 2, o + C[i] + 1)
       ELSE IF C[i] \div 32 = 7
       THEN /\ i + 2 <= Len(C)
            /\ \/ o - (C[i] % 32) * 256 - C[i + 2] - 1 < 0
               \/ RefBeforeStart(C, i + 3, o + 7 + C[i + 1] + 2)
       ELSE /\ i + 1 <= Len(C)
            /\ \/ o - (C[i] % 32) * 256 - C[i + 1] - 1 < 0
               \/ RefBeforeStart(C, i + 2, o + C[i] \div 32 + 2)

\* C24: lzf_decompress raises on a compressed string with a back
\* reference whose source index ref is below 0, before the start of the
\* output; it copies from indexes 0 <= ref < len(out_stream) only.
C24_RefBeforeStartFails ==
    (call.fn = "lzf_decompress" /\ ret # <<>> /\ RefBeforeStart(call.f, 1, 0)) => ~ret[1].ok
====
